---- MODULE Spec2Model ----
(***************************************************************************)
(* Model of the Signal.vin bulk appraisal program (src/backend.py,         *)
(* src/server.py): the capture buffer, extract_export_value, the per-VIN   *)
(* loop appraise_vehicle and the batch loop process_vins.generate.         *)
(*                                                                         *)
(* Text (URLs, aria labels, numeric tokens, the export value string) is a  *)
(* sequence of one-character strings.  Python floats are exact rationals   *)
(* [n, d]; the sample inputs are chosen so that the double evaluation of   *)
(* the source is exact on them.                                            *)
(***************************************************************************)
EXTENDS Integers, Sequences, FiniteSets, TLC

(***************************************************************************)
(* Bounds of the model.                                                    *)
(***************************************************************************)
MaxBuf == 2
MaxAttempts == 3
MaxRows == 4

(***************************************************************************)
(* Text.                                                                   *)
(***************************************************************************)
DigitChars == <<"0","1","2","3","4","5","6","7","8","9">>

\* str.lower() on one character
lower_of ==
    "A" :> "a" @@ "B" :> "b" @@ "C" :> "c" @@ "D" :> "d" @@ "E" :> "e" @@ "F" :> "f" @@
    "G" :> "g" @@ "H" :> "h" @@ "I" :> "i" @@ "J" :> "j" @@ "K" :> "k" @@ "L" :> "l" @@
    "M" :> "m" @@ "N" :> "n" @@ "O" :> "o" @@ "P" :> "p" @@ "Q" :> "q" @@ "R" :> "r" @@
    "S" :> "s" @@ "T" :> "t" @@ "U" :> "u" @@ "V" :> "v" @@ "W" :> "w" @@ "X" :> "x" @@
    "Y" :> "y" @@ "Z" :> "z"

LowerChar(c) == IF c \in DOMAIN lower_of THEN lower_of[c] ELSE c

\* str.lower()
RECURSIVE Lower(_)
Lower(s) == IF s = <<>> THEN <<>> ELSE <<LowerChar(Head(s))>> \o Lower(Tail(s))

\* Python's  sub in s  on strings
Contains(s, sub) ==
    \E i \in 1..(Len(s) - Len(sub) + 1) : SubSeq(s, i, i + Len(sub) - 1) = sub

IsDigit(c) == \E i \in 1..10 : DigitChars[i] = c
DigitVal(c) == (CHOOSE i \in 1..10 : DigitChars[i] = c) - 1

\* value of a string of decimal digits
RECURSIVE DigitsToInt(_)
DigitsToInt(s) ==
    IF s = <<>> THEN 0
    ELSE 10 * DigitsToInt(SubSeq(s, 1, Len(s) - 1)) + DigitVal(s[Len(s)])

RECURSIVE NatToStr(_)
NatToStr(k) ==
    IF k < 10 THEN <<DigitChars[k + 1]>>
    ELSE NatToStr(k \div 10) \o <<DigitChars[(k % 10) + 1]>>

\* str(int)
IntToStr(k) == IF k < 0 THEN <<"-">> \o NatToStr(-k) ELSE NatToStr(k)

(***************************************************************************)
(* Numbers: a Python float or int is the rational n/d, d > 0, in lowest    *)
(* terms; None is NoneNum.                                                 *)
(***************************************************************************)
RECURSIVE Gcd(_, _)
Gcd(a, b) == IF b = 0 THEN a ELSE Gcd(b, a % b)

Abs(x) == IF x < 0 THEN -x ELSE x

Rat(n, d) ==
    LET g == Gcd(Abs(n), d)
    IN  [some |-> TRUE, n |-> n \div g, d |-> d \div g]

NoneNum == [some |-> FALSE, n |-> 0, d |-> 1]
Zero == Rat(0, 1)

RAdd(a, b) == Rat(a.n * b.d + b.n * a.d, a.d * b.d)
RSub(a, b) == Rat(a.n * b.d - b.n * a.d, a.d * b.d)
RMul(a, b) == Rat(a.n * b.n, a.d * b.d)
RPos(a) == a.n > 0

\* the truth value Python gives a float-or-None
Truthy(a) == a.some /\ a.n # 0

\* x or 0
OrZero(a) == IF Truthy(a) THEN a ELSE Zero

\* Python 3 round(x): nearest integer, ties to the even one
RoundHalfEven(a) ==
    LET q == a.n \div a.d
        r == a.n % a.d
    IN  IF 2 * r < a.d THEN q
        ELSE IF 2 * r > a.d THEN q + 1
        ELSE IF q % 2 = 0 THEN q ELSE q + 1

\* int(x) on a float: truncation toward zero
Trunc(a) == IF a.n >= 0 THEN a.n \div a.d ELSE -((-a.n) \div a.d)

(***************************************************************************)
(* JSON values as json.loads returns them.  t is the Python type:          *)
(* "absent" (key not in the dict), "null" (None), "num" (int or float,     *)
(* value n/d), "numstr" (a str float() accepts, value n/d), "str" (any     *)
(* other str, text s), "obj" (a dict), "list" (a non-empty list),          *)
(* "emptylist".                                                            *)
(***************************************************************************)
JAbsent == [t |-> "absent", n |-> 0, d |-> 1, s |-> ""]
JNull == [t |-> "null", n |-> 0, d |-> 1, s |-> ""]
JObj == [t |-> "obj", n |-> 0, d |-> 1, s |-> ""]
JList == [t |-> "list", n |-> 0, d |-> 1, s |-> ""]
JEmptyList == [t |-> "emptylist", n |-> 0, d |-> 1, s |-> ""]
JNum(n, d) == [t |-> "num", n |-> Rat(n, d).n, d |-> Rat(n, d).d, s |-> ""]
JNumStr(n, d) == [t |-> "numstr", n |-> Rat(n, d).n, d |-> Rat(n, d).d, s |-> ""]
JStr(s) == [t |-> "str", n |-> 0, d |-> 1, s |-> s]

\* key in dict
Has(v) == v.t # "absent"

\* bool(v)
JTruthy(v) ==
    CASE v.t = "num" -> v.n # 0
      [] v.t = "numstr" -> TRUE
      [] v.t = "str" -> v.s # ""
      [] v.t \in {"obj", "list"} -> TRUE
      [] OTHER -> FALSE

\* float(v): ok is FALSE where Python raises TypeError or ValueError
PyFloat(v) ==
    IF v.t \in {"num", "numstr"}
    THEN [ok |-> TRUE, val |-> Rat(v.n, v.d)]
    ELSE [ok |-> FALSE, val |-> NoneNum]

\* int(v): truncates a number, parses a str of an integer only
PyInt(v) ==
    IF v.t = "num" THEN [ok |-> TRUE, val |-> Rat(Trunc(Rat(v.n, v.d)), 1)]
    ELSE IF v.t = "numstr" /\ v.d = 1 THEN [ok |-> TRUE, val |-> Rat(v.n, 1)]
    ELSE [ok |-> FALSE, val |-> NoneNum]

(***************************************************************************)
(* A response body.  kind is what the text is: "empty", "func" (starts     *)
(* with "(function"), "html" (starts with "<!"), "badjson" (json.loads     *)
(* raises), "json" (a JSON object), "list" (a JSON array), "scalar" (JSON  *)
(* null or a number).  For kind "json" the fields are the keys the         *)
(* extractor reads, nested keys flattened; raw lists, in text order, the   *)
(* quoted keys of the text with the [\d.]+ token that follows each after   *)
(* [:\s]* (empty when none does).                                          *)
(***************************************************************************)
BlankBody ==
    [kind |-> "json",
     make |-> JAbsent, model |-> JAbsent,
     selected_trim |-> JAbsent, suggested_trim |-> JAbsent,
     customs_duty_rate |-> JAbsent,
     exchange_rate |-> JAbsent, to_currency_rate |-> JAbsent,
     current_weekly_depreciation_factor |-> JAbsent,
     offer_setup |-> JAbsent,
     export_cost_amount |-> JAbsent, target_gpu_amount |-> JAbsent,
     fx_cushion_amount |-> JAbsent, average_days_in_inventory |-> JAbsent,
     wholesale_value_trends |-> JAbsent,
     predicted_wholesale_value |-> JAbsent, pwv_amount |-> JAbsent,
     wholesale_history |-> JAbsent, history_values |-> JAbsent,
     history_amount |-> JAbsent,
     raw |-> <<>>]

\* the dict _capture_response appends
Response(url, body) == [url |-> url, status |-> 200, body |-> body]

(***************************************************************************)
(* URL fragments and keys the source names.                                *)
(***************************************************************************)
s_signal_vin == <<"s","i","g","n","a","l",".","v","i","n">>
s_decode == <<"d","e","c","o","d","e">>
s_offer_initial == <<"o","f","f","e","r","/","i","n","i","t","i","a","l">>
s_wholesale_value_trends == <<"w","h","o","l","e","s","a","l","e","_","v","a","l","u","e","_","t","r","e","n","d","s">>
s_retail == <<"r","e","t","a","i","l">>
s_export2 == <<"e","x","p","o","r","t","2">>
s_offer == <<"o","f","f","e","r">>
s_export == <<"e","x","p","o","r","t">>
s_login == <<"l","o","g","i","n">>

skip_endpoints ==
    << <<"c","e","o">>,
       <<"s","e","a","r","c","h","/","a","p","p","r","a","i","s","a","l","s">>,
       <<"i","n","t","e","r","c","o","m">>,
       <<"s","e","n","t","r","y">>,
       <<"p","i","n","g">>,
       <<"d","a","s","h","b","o","a","r","d">>,
       <<"r","e","c","a","l","l","s">>,
       <<"c","a","r","f","a","x">>,
       <<"a","u","t","h","/","u","s","e","r">> >>

\* the quoted keys of the six patterns, in list order
patterns ==
    << <<"e","x","p","o","r","t","_","v","a","l","u","e">>,
       <<"e","x","p","o","r","t","V","a","l","u","e">>,
       <<"a","p","p","r","a","i","s","e","d","_","v","a","l","u","e">>,
       <<"w","h","o","l","e","s","a","l","e","_","v","a","l","u","e">>,
       <<"m","a","r","k","e","t","_","v","a","l","u","e">>,
       <<"m","m","r","_","v","a","l","u","e">> >>

(***************************************************************************)
(* extract_export_value, first pass: the signals recovered from the        *)
(* buffer.  raised is TRUE once a statement of the loop body raised (the   *)
(* exception leaves extract_export_value).                                 *)
(***************************************************************************)
InitSignals ==
    [exchange_rate |-> NoneNum, fx_cushion |-> Zero,
     export_cost |-> NoneNum, target_gpu |-> NoneNum,
     us_wholesale_value |-> NoneNum, customs_duty_rate |-> Zero,
     weekly_depreciation_factor |-> Zero, average_days_in_inventory |-> Zero,
     vehicle_make |-> JStr(""), vehicle_model |-> JStr(""),
     vehicle_trim |-> JStr(""), raised |-> FALSE]

Raise(sig) == [sig EXCEPT !.raised = TRUE]

\* x = float(v), as one statement: assigns, or raises
SetFloat(sig, field, v) ==
    IF PyFloat(v).ok THEN [sig EXCEPT ![field] = PyFloat(v).val] ELSE Raise(sig)

\* "if key in dict: x = float(dict[key])"
SetFloatIfHas(sig, field, v) ==
    IF sig.raised \/ ~Has(v) THEN sig ELSE SetFloat(sig, field, v)

\* a decode branch that keeps a vehicle field once it is non-empty
DecodeBlock_KeepsFirst(sig, b) ==
    LET s1 == IF Has(b.make) /\ ~JTruthy(sig.vehicle_make)
              THEN [sig EXCEPT !.vehicle_make = b.make] ELSE sig
        s2 == IF Has(b.model) /\ ~JTruthy(s1.vehicle_model)
              THEN [s1 EXCEPT !.vehicle_model = b.model] ELSE s1
    IN  IF JTruthy(s2.vehicle_trim) THEN s2
        ELSE IF Has(b.selected_trim) /\ JTruthy(b.selected_trim)
        THEN [s2 EXCEPT !.vehicle_trim = b.selected_trim]
        ELSE IF Has(b.suggested_trim) /\ JTruthy(b.suggested_trim)
        THEN [s2 EXCEPT !.vehicle_trim = b.suggested_trim]
        ELSE s2

\* mutant: a customs_duty_rate that cannot be cast resets the rate to 0
DecodeBlock_DutyReset(sig, b) ==
    LET s1 == IF Has(b.make) THEN [sig EXCEPT !.vehicle_make = b.make] ELSE sig
        s2 == IF Has(b.model) THEN [s1 EXCEPT !.vehicle_model = b.model] ELSE s1
        s3 == IF Has(b.selected_trim) /\ JTruthy(b.selected_trim)
              THEN [s2 EXCEPT !.vehicle_trim = b.selected_trim]
              ELSE IF Has(b.suggested_trim) /\ JTruthy(b.suggested_trim)
              THEN [s2 EXCEPT !.vehicle_trim = b.suggested_trim]
              ELSE s2
    IN  IF ~Has(b.customs_duty_rate) THEN s3
        ELSE IF PyFloat(b.customs_duty_rate).ok
        THEN [s3 EXCEPT !.customs_duty_rate = PyFloat(b.customs_duty_rate).val]
        ELSE [s3 EXCEPT !.customs_duty_rate = Zero]

\* the decode branch
DecodeBlock(sig, b) ==
    LET s1 == IF Has(b.make) THEN [sig EXCEPT !.vehicle_make = b.make] ELSE sig
        s2 == IF Has(b.model) THEN [s1 EXCEPT !.vehicle_model = b.model] ELSE s1
        s3 == IF Has(b.selected_trim) /\ JTruthy(b.selected_trim)
              THEN [s2 EXCEPT !.vehicle_trim = b.selected_trim]
              ELSE IF Has(b.suggested_trim) /\ JTruthy(b.suggested_trim)
              THEN [s2 EXCEPT !.vehicle_trim = b.suggested_trim]
              ELSE s2
    IN  IF Has(b.customs_duty_rate) /\ b.customs_duty_rate.t # "null"
           /\ PyFloat(b.customs_duty_rate).ok
        THEN [s3 EXCEPT !.customs_duty_rate = PyFloat(b.customs_duty_rate).val]
        ELSE s3

\* the offer/initial branch
OfferInitialBlock(sig, b) ==
    LET s1 == IF ~Has(b.exchange_rate) THEN sig
              ELSE IF b.exchange_rate.t = "obj" /\ Has(b.to_currency_rate)
              THEN SetFloat(sig, "exchange_rate", b.to_currency_rate)
              ELSE IF b.exchange_rate.t = "num"
              THEN SetFloat(sig, "exchange_rate", b.exchange_rate)
              ELSE sig
        s2 == SetFloatIfHas(s1, "weekly_depreciation_factor",
                            b.current_weekly_depreciation_factor)
        s3 == IF s2.raised \/ ~Has(b.offer_setup) THEN s2
              ELSE IF b.offer_setup.t \in {"null", "num"} THEN Raise(s2)
              ELSE IF b.offer_setup.t # "obj" THEN s2
              ELSE LET t1 == SetFloatIfHas(s2, "export_cost", b.export_cost_amount)
                       t2 == SetFloatIfHas(t1, "target_gpu", b.target_gpu_amount)
                       t3 == SetFloatIfHas(t2, "fx_cushion", b.fx_cushion_amount)
                   IN  IF t3.raised \/ ~Has(b.average_days_in_inventory) THEN t3
                       ELSE IF PyInt(b.average_days_in_inventory).ok
                       THEN [t3 EXCEPT !.average_days_in_inventory =
                                           PyInt(b.average_days_in_inventory).val]
                       ELSE Raise(t3)
    IN  s3

\* the wholesale_value_trends branch
WholesaleBlock(sig, b) ==
    IF ~Has(b.wholesale_value_trends) \/ b.wholesale_value_trends.t = "null"
    THEN sig
    ELSE IF b.wholesale_value_trends.t = "num" THEN Raise(sig)
    ELSE IF b.wholesale_value_trends.t # "obj" THEN sig
    ELSE
    LET pwv == b.predicted_wholesale_value
        s1 == IF ~Has(pwv) \/ pwv.t = "null" THEN sig
              ELSE IF pwv.t = "obj" /\ Has(b.pwv_amount)
              THEN SetFloat(sig, "us_wholesale_value", b.pwv_amount)
              ELSE IF pwv.t = "num"
              THEN SetFloat(sig, "us_wholesale_value", pwv)
              ELSE sig
    IN  IF s1.raised \/ Truthy(s1.us_wholesale_value)
           \/ ~Has(b.wholesale_history) \/ b.wholesale_history.t = "null"
        THEN s1
        ELSE IF b.wholesale_history.t = "num" THEN Raise(s1)
        ELSE IF b.wholesale_history.t # "obj" THEN s1
        ELSE IF Has(b.history_values) /\ JTruthy(b.history_values)
                /\ Has(b.history_amount)
        THEN SetFloat(s1, "us_wholesale_value", b.history_amount)
        ELSE s1

\* one iteration of "for resp in self.captured_responses"
ScanResponse(sig, resp) ==
    LET url == resp.url
        b == resp.body
        isDecode == Contains(url, s_decode) /\ Contains(url, s_signal_vin)
        isOffer == Contains(url, s_offer_initial)
        isRetail == Contains(url, s_retail) /\ Contains(url, s_export2)
        isTrends == Contains(url, s_wholesale_value_trends)
    IN  IF b.kind \in {"empty", "func", "html", "badjson"} THEN sig
        ELSE IF b.kind = "scalar"
        THEN IF isDecode \/ isOffer \/ isRetail \/ isTrends THEN Raise(sig) ELSE sig
        ELSE IF b.kind = "list" THEN sig
        ELSE
        LET s1 == IF isDecode THEN DecodeBlock(sig, b) ELSE sig
            s2 == IF isOffer THEN OfferInitialBlock(s1, b) ELSE s1
        IN  IF s2.raised \/ ~isTrends THEN s2 ELSE WholesaleBlock(s2, b)

\* a pass that reads the buffer from its end
RECURSIVE ScanBuffer_FromEnd(_, _)
ScanBuffer_FromEnd(sig, buf) ==
    IF buf = <<>> \/ sig.raised THEN sig
    ELSE ScanBuffer_FromEnd(ScanResponse(sig, buf[Len(buf)]),
                            SubSeq(buf, 1, Len(buf) - 1))

\* the first pass over the buffer; it stops where a statement raises
RECURSIVE ScanBuffer(_, _)
ScanBuffer(sig, buf) ==
    IF buf = <<>> \/ sig.raised THEN sig
    ELSE ScanBuffer(ScanResponse(sig, Head(buf)), Tail(buf))

(***************************************************************************)
(* extract_export_value, Method 2: the calculator.                         *)
(***************************************************************************)
\* mutants of the guard: presence only; the exchange rate only
CanCalculate_PresenceOnly(sig) == sig.us_wholesale_value.some /\ sig.exchange_rate.some
CanCalculate_RateOnly(sig) == Truthy(sig.exchange_rate)

\* the guard of the calculation
CanCalculate(sig) == Truthy(sig.us_wholesale_value) /\ Truthy(sig.exchange_rate)

\* mutant: the days are not clamped at 0
weeks_NoClamp(sig) == RMul(sig.average_days_in_inventory, Rat(1, 7))

weeks(sig) ==
    IF RPos(sig.average_days_in_inventory)
    THEN RMul(sig.average_days_in_inventory, Rat(1, 7)) ELSE Zero

\* mutant: the factor is not clamped at 0
depreciation_rate_NoClamp(sig) == RMul(sig.weekly_depreciation_factor, Rat(1, 100))

depreciation_rate(sig) ==
    IF RPos(sig.weekly_depreciation_factor)
    THEN RMul(sig.weekly_depreciation_factor, Rat(1, 100)) ELSE Zero

net_usd(sig) ==
    LET W == sig.us_wholesale_value
        customs_duty == RMul(W, sig.customs_duty_rate)
        depreciation_usd == RMul(RMul(W, depreciation_rate(sig)), weeks(sig))
    IN  RSub(RSub(RSub(RSub(W, OrZero(sig.export_cost)), OrZero(sig.target_gpu)),
                  customs_duty), depreciation_usd)

\* str(int(round(net_usd * effective_fx)))
Calculate(sig) ==
    LET effective_fx == RSub(sig.exchange_rate, sig.fx_cushion)
    IN  IntToStr(RoundHalfEven(RMul(net_usd(sig), effective_fx)))

(***************************************************************************)
(* extract_export_value, Method 3: the pattern search over the raw text.   *)
(***************************************************************************)
NoneStr == [some |-> FALSE, v |-> <<>>]
SomeStr(v) == [some |-> TRUE, v |-> v]

RECURSIVE CountDots(_)
CountDots(tok) ==
    IF tok = <<>> THEN 0
    ELSE (IF Head(tok) = "." THEN 1 ELSE 0) + CountDots(Tail(tok))

RECURSIVE IntPart(_)
IntPart(tok) ==
    IF tok = <<>> \/ Head(tok) = "." THEN <<>>
    ELSE <<Head(tok)>> \o IntPart(Tail(tok))

\* str(int(float(val))) for a [\d.]+ token; ok is FALSE where float raises
val_int(tok) ==
    IF CountDots(tok) > 1 \/ Len(tok) = CountDots(tok)
    THEN [ok |-> FALSE, v |-> <<>>]
    ELSE [ok |-> TRUE, v |-> NatToStr(DigitsToInt(IntPart(tok)))]

\* re.search(pattern, body, re.I): the token of the first place where the
\* quoted key, compared without case, is followed by a number
RECURSIVE SearchKey(_, _)
SearchKey(raw, key) ==
    IF raw = <<>> THEN NoneStr
    ELSE IF Lower(Head(raw).key) = Lower(key) /\ Head(raw).tok # <<>>
    THEN SomeStr(Head(raw).tok)
    ELSE SearchKey(Tail(raw), key)

\* a pattern loop that gives the response up at the first rejected match
RECURSIVE SearchPatterns_StopAtShort(_, _)
SearchPatterns_StopAtShort(raw, j) ==
    IF j > Len(patterns) THEN NoneStr
    ELSE LET m == SearchKey(raw, patterns[j])
         IN  IF ~m.some THEN SearchPatterns_StopAtShort(raw, j + 1)
             ELSE IF val_int(m.v).ok /\ Len(val_int(m.v).v) >= 4
             THEN SomeStr(val_int(m.v).v)
             ELSE NoneStr

\* "for pattern, name in patterns", from pattern j on
RECURSIVE SearchPatterns(_, _)
SearchPatterns(raw, j) ==
    IF j > Len(patterns) THEN NoneStr
    ELSE LET m == SearchKey(raw, patterns[j])
         IN  IF m.some /\ val_int(m.v).ok /\ Len(val_int(m.v).v) >= 4
             THEN SomeStr(val_int(m.v).v)
             ELSE SearchPatterns(raw, j + 1)

\* a filter that compares the skip list with the URL as written
IsRelevantUrl_AsWritten(url) ==
    /\ ~\E k \in 1..Len(skip_endpoints) : Contains(url, skip_endpoints[k])
    /\ (Contains(url, s_export2) \/ Contains(url, s_offer))

\* the URL filter of Method 3
IsRelevantUrl(url) ==
    LET lowered == Lower(url)
    IN  /\ ~\E k \in 1..Len(skip_endpoints) : Contains(lowered, skip_endpoints[k])
        /\ (Contains(url, s_export2) \/ Contains(url, s_offer))

RECURSIVE PatternStage(_)
PatternStage(buf) ==
    IF buf = <<>> THEN NoneStr
    ELSE LET m == IF IsRelevantUrl(Head(buf).url)
                  THEN SearchPatterns(Head(buf).body.raw, 1) ELSE NoneStr
         IN  IF m.some THEN m ELSE PatternStage(Tail(buf))

(***************************************************************************)
(* extract_export_value, Method 4: the aria labels of the live page.       *)
(***************************************************************************)
AriaLimit == 20

IsNumChar(c) == IsDigit(c) \/ c = ","

\* the maximal run of digits and commas that starts at position i
RECURSIVE RunFrom(_, _)
RunFrom(label, i) ==
    IF i > Len(label) \/ ~IsNumChar(label[i]) THEN <<>>
    ELSE <<label[i]>> \o RunFrom(label, i + 1)

\* group 1 of re.search(r'\$?\s*([\d,]+)', label)
FirstRun(label) ==
    IF \E i \in 1..Len(label) : IsNumChar(label[i])
    THEN SomeStr(RunFrom(label, CHOOSE i \in 1..Len(label) :
                     IsNumChar(label[i]) /\ \A j \in 1..(i - 1) : ~IsNumChar(label[j])))
    ELSE NoneStr

\* val.replace(",", "")
RECURSIVE StripCommas(_)
StripCommas(v) ==
    IF v = <<>> THEN <<>>
    ELSE (IF Head(v) = "," THEN <<>> ELSE <<Head(v)>>) \o StripCommas(Tail(v))

LabelValue(label) ==
    LET triggered == label # <<>> /\
                     (Contains(label, <<"$">>) \/ Contains(label, <<"C","A","D">>)
                      \/ \E i \in 1..Len(label) : IsDigit(label[i]))
        m == FirstRun(label)
        val == StripCommas(m.v)
    IN  IF triggered /\ m.some /\ Len(val) >= 4 THEN SomeStr(val) ELSE NoneStr

RECURSIVE AriaScan(_)
AriaScan(labels) ==
    IF labels = <<>> THEN NoneStr
    ELSE IF LabelValue(Head(labels)).some THEN LabelValue(Head(labels))
    ELSE AriaScan(Tail(labels))

AriaStage(labels) ==
    AriaScan(SubSeq(labels, 1, IF Len(labels) < AriaLimit THEN Len(labels) ELSE AriaLimit))

(***************************************************************************)
(* extract_export_value as a whole.  value is the returned str (NoneStr    *)
(* for None), method the stage that returned it, raised whether the call   *)
(* ended in an exception; signals are the locals of the first pass.        *)
(***************************************************************************)
\* an extraction that looks at the aria labels before the patterns
ExtractExportValue_AriaFirst(buf, labels) ==
    LET sig == ScanBuffer(InitSignals, buf)
    IN  IF sig.raised
        THEN [raised |-> TRUE, value |-> NoneStr, method |-> "raised", signals |-> sig]
        ELSE IF CanCalculate(sig)
        THEN [raised |-> FALSE, value |-> SomeStr(Calculate(sig)),
              method |-> "calculator", signals |-> sig]
        ELSE LET found == PatternStage(buf)
                 label == AriaStage(labels)
             IN  IF label.some
                 THEN [raised |-> FALSE, value |-> label,
                       method |-> "aria", signals |-> sig]
                 ELSE IF found.some
                 THEN [raised |-> FALSE, value |-> found,
                       method |-> "pattern", signals |-> sig]
                 ELSE [raised |-> FALSE, value |-> NoneStr,
                       method |-> "none", signals |-> sig]

ExtractExportValue(buf, labels) ==
    LET sig == ScanBuffer(InitSignals, buf)
    IN  IF sig.raised
        THEN [raised |-> TRUE, value |-> NoneStr, method |-> "raised", signals |-> sig]
        ELSE IF CanCalculate(sig)
        THEN [raised |-> FALSE, value |-> SomeStr(Calculate(sig)),
              method |-> "calculator", signals |-> sig]
        ELSE LET found == PatternStage(buf)
                 label == AriaStage(labels)
             IN  IF found.some
                 THEN [raised |-> FALSE, value |-> found,
                       method |-> "pattern", signals |-> sig]
                 ELSE IF label.some
                 THEN [raised |-> FALSE, value |-> label,
                       method |-> "aria", signals |-> sig]
                 ELSE [raised |-> FALSE, value |-> NoneStr,
                       method |-> "none", signals |-> sig]

(***************************************************************************)
(* The state of the program.                                               *)
(***************************************************************************)
VARIABLES
    \* the SignalVinAutomation object and its page
    captured_responses,   \* self.captured_responses
    vehicle_make,         \* self.vehicle_make
    vehicle_model,        \* self.vehicle_model
    vehicle_trim,         \* self.vehicle_trim
    login_email,          \* whether auto_login has stored login_email/login_password
    page_url,             \* self.page.url
    aria_labels,          \* the aria-label values of the live page, in DOM order
    browser,              \* self.browser: "none", "open" or "closed"
    delivered,            \* the responses the callback was called with since the clear
    foreign,              \* the buffer holds a response an earlier page load produced
    extracted,            \* what the last call of extract_export_value did
    \* the frame of appraise_vehicle
    av_pc,                \* where the call stands
    attempt,              \* attempt
    list_price,           \* the list_price argument
    args,                 \* the other arguments that come from the inventory row
    result,               \* result
    export_value,         \* export_value
    exc,                  \* the exception being handled
    relogins,             \* calls of re_login in the current attempt
    scrolls,              \* scroll cycles in the current attempt
    extractions,          \* calls of extract_export_value in the current attempt
    \* the frame of process_vins.generate and the globals of server.py
    run_pc,               \* where the generator stands
    valid_rows,           \* config['valid_rows']
    credentials,          \* whether SIGNAL_EMAIL and SIGNAL_PASSWORD are both set
    i,                    \* the index of the for loop
    should_stop,          \* should_stop
    events,               \* the events yielded so far
    success_count,        \* success_count
    error_count,          \* error_count
    is_processing,        \* is_processing
    other_pc,             \* where a second POST /api/process stands
    \* save_to_appraisal_results and the datastore
    posted,               \* the POST requests made to appraisal_results, in order
    save_rets,            \* what the calls of save_to_appraisal_results returned
    \* the event stream of the run, in detail
    row_events,           \* the progress and result events yielded so far, each with
                          \* the row it is about and its progress value
    \* the global automation of server.py, shared by all requests
    automation,           \* the object it names: "none" (None), "own" (the object the
                          \* followed run constructed) or "other" (the second request's)
    other_browser         \* the browser of the second request's object

objVars == <<captured_responses, vehicle_make, vehicle_model, vehicle_trim, extracted,
             delivered, foreign>>
pageVars == <<page_url, aria_labels, browser>>
avVars == <<av_pc, attempt, list_price, args, result, export_value, exc,
            relogins, scrolls, extractions>>
runVars == <<run_pc, valid_rows, credentials, i, should_stop, events,
             success_count, error_count, is_processing, other_pc, posted, save_rets,
             row_events, automation, other_browser>>
vars == <<objVars, login_email, pageVars, avVars, runVars>>

\* no call of extract_export_value has ended yet
NotExtracted ==
    [raised |-> FALSE, value |-> NoneStr, method |-> "pending", signals |-> InitSignals]

(***************************************************************************)
(* Sample traffic of the valuation application.                            *)
(***************************************************************************)
signal_url == <<"/","/","a","p","p",".">> \o s_signal_vin
url_decode == signal_url \o <<"/">> \o s_decode
url_offer_initial == signal_url \o <<"/">> \o s_export2 \o <<"/">> \o s_offer_initial
url_trends == signal_url \o <<"/">> \o s_wholesale_value_trends
url_retail == signal_url \o <<"/">> \o s_export2 \o <<"/">> \o s_retail

\* decode: Honda Civic EX, duty 3%
R_decode ==
    Response(url_decode,
        [BlankBody EXCEPT !.make = JStr("Honda"), !.model = JStr("Civic"),
                          !.selected_trim = JStr("EX"),
                          !.customs_duty_rate = JNum(3, 100)])
\* decode: Toyota Corolla, an empty selected_trim, suggested_trim LE
R_decode_toyota ==
    Response(url_decode,
        [BlankBody EXCEPT !.make = JStr("Toyota"), !.model = JStr("Corolla"),
                          !.selected_trim = JStr(""),
                          !.suggested_trim = JStr("LE")])
\* decode: an empty make, no model, an empty selected_trim
R_decode_blank ==
    Response(url_decode,
        [BlankBody EXCEPT !.make = JStr(""), !.selected_trim = JStr("")])
\* decode: Kia, "customs_duty_rate": null
R_decode_duty_null ==
    Response(url_decode,
        [BlankBody EXCEPT !.make = JStr("Kia"), !.customs_duty_rate = JNull])
\* decode: Ford, "customs_duty_rate": "N/A"
R_decode_duty_text ==
    Response(url_decode,
        [BlankBody EXCEPT !.make = JStr("Ford"), !.customs_duty_rate = JStr("N/A")])
\* decode: "customs_duty_rate": "0.05"
R_decode_duty_numstr ==
    Response(url_decode, [BlankBody EXCEPT !.customs_duty_rate = JNumStr(5, 100)])
\* offer/initial: rate 1.35 nested, depreciation 0.15 %/week, the full offer_setup
R_offer ==
    Response(url_offer_initial,
        [BlankBody EXCEPT !.exchange_rate = JObj, !.to_currency_rate = JNum(135, 100),
                          !.current_weekly_depreciation_factor = JNum(15, 100),
                          !.offer_setup = JObj,
                          !.export_cost_amount = JNum(500, 1),
                          !.target_gpu_amount = JNum(300, 1),
                          !.fx_cushion_amount = JNum(2, 100),
                          !.average_days_in_inventory = JNum(35, 1)])
\* offer/initial: scalar rate 1.25 and nothing else
R_offer_plain ==
    Response(url_offer_initial, [BlankBody EXCEPT !.exchange_rate = JNum(5, 4)])
\* offer/initial: scalar rate 1.25, a negative depreciation factor, costs above
\* the wholesale values of the samples
R_offer_neg ==
    Response(url_offer_initial,
        [BlankBody EXCEPT !.exchange_rate = JNum(5, 4),
                          !.current_weekly_depreciation_factor = JNum(-50, 1),
                          !.offer_setup = JObj,
                          !.export_cost_amount = JNum(3000, 1),
                          !.average_days_in_inventory = JNum(14, 1)])
\* offer/initial: scalar rate 1.25, depreciation 50 %/week, negative days
R_offer_negdays ==
    Response(url_offer_initial,
        [BlankBody EXCEPT !.exchange_rate = JNum(5, 4),
                          !.current_weekly_depreciation_factor = JNum(50, 1),
                          !.offer_setup = JObj,
                          !.average_days_in_inventory = JNum(-14, 1)])
\* offer/initial: a rate of 0
R_offer_zero ==
    Response(url_offer_initial, [BlankBody EXCEPT !.exchange_rate = JNum(0, 1)])
\* offer/initial: "to_currency_rate": null
R_offer_bad ==
    Response(url_offer_initial,
        [BlankBody EXCEPT !.exchange_rate = JObj, !.to_currency_rate = JNull])
\* wholesale_value_trends: predicted value 20000 nested
R_trends ==
    Response(url_trends,
        [BlankBody EXCEPT !.wholesale_value_trends = JObj,
                          !.predicted_wholesale_value = JObj,
                          !.pwv_amount = JNum(20000, 1)])
\* wholesale_value_trends: scalar predicted value 2002
R_trends_2002 ==
    Response(url_trends,
        [BlankBody EXCEPT !.wholesale_value_trends = JObj,
                          !.predicted_wholesale_value = JNum(2002, 1)])
\* wholesale_value_trends: no prediction, history starting at 2006
R_trends_history ==
    Response(url_trends,
        [BlankBody EXCEPT !.wholesale_value_trends = JObj,
                          !.predicted_wholesale_value = JNull,
                          !.wholesale_history = JObj, !.history_values = JList,
                          !.history_amount = JNum(2006, 1)])
\* wholesale_value_trends: no key predicted_wholesale_value, history starting
\* at 2006
R_trends_history_only ==
    Response(url_trends,
        [BlankBody EXCEPT !.wholesale_value_trends = JObj,
                          !.wholesale_history = JObj, !.history_values = JList,
                          !.history_amount = JNum(2006, 1)])
\* wholesale_value_trends: a predicted value of 0
R_trends_zero ==
    Response(url_trends,
        [BlankBody EXCEPT !.wholesale_value_trends = JObj,
                          !.predicted_wholesale_value = JNum(0, 1)])
\* export2/retail: the text holds "export_value": 23456
R_retail ==
    Response(url_retail,
        [BlankBody EXCEPT !.raw = << [key |-> patterns[1], tok |-> <<"2","3","4","5","6">>] >>])
\* export2/retail: the text holds "export_value": 999
R_retail_short ==
    Response(url_retail,
        [BlankBody EXCEPT !.raw = << [key |-> patterns[1], tok |-> <<"9","9","9">>] >>])
\* an HTML page
\* retail: in text order mmr_value 50000, export_value 999, appraised_value 7777
R_retail_mixed ==
    Response(url_retail,
        [BlankBody EXCEPT !.raw = << [key |-> patterns[6], tok |-> <<"5","0","0","0","0">>],
                                     [key |-> patterns[1], tok |-> <<"9","9","9">>],
                                     [key |-> patterns[3], tok |-> <<"7","7","7","7">>] >>])
\* retail: export_value 999 and, later in the text, export_value 23456
R_retail_twice ==
    Response(url_retail,
        [BlankBody EXCEPT !.raw = << [key |-> patterns[1], tok |-> <<"9","9","9">>],
                                     [key |-> patterns[1], tok |-> <<"2","3","4","5","6">>] >>])
\* retail: export_value 999.99 and market_value 1234.9
R_retail_frac ==
    Response(url_retail,
        [BlankBody EXCEPT !.raw = << [key |-> patterns[1], tok |-> <<"9","9","9",".","9","9">>],
                                     [key |-> patterns[5], tok |-> <<"1","2","3","4",".","9">>] >>])
\* wholesale_value_trends without trends data, with export_value 88888 in its text
R_trends_export ==
    Response(url_trends,
        [BlankBody EXCEPT !.raw = << [key |-> patterns[1], tok |-> <<"8","8","8","8","8">>] >>])
\* export2 URLs with a skip fragment, in lower case and capitalized
R_export2_carfax ==
    Response(signal_url \o <<"/">> \o s_export2 \o <<"/">> \o skip_endpoints[8],
        [BlankBody EXCEPT !.raw = << [key |-> patterns[1], tok |-> <<"1","1","1","1","1">>] >>])
R_export2_Dashboard ==
    Response(signal_url \o <<"/">> \o s_export2 \o <<"/","D","a","s","h","b","o","a","r","d">>,
        [BlankBody EXCEPT !.raw = << [key |-> patterns[1], tok |-> <<"5","5","5","5","5">>] >>])
\* URLs with "offer" and no "export2", in lower case and in capitals
R_offer_only ==
    Response(signal_url \o <<"/">> \o s_offer,
        [BlankBody EXCEPT !.raw = << [key |-> patterns[5], tok |-> <<"4","3","2","1">>] >>])
R_OFFER_upper ==
    Response(signal_url \o <<"/","O","F","F","E","R">>,
        [BlankBody EXCEPT !.raw = << [key |-> patterns[1], tok |-> <<"6","6","6","6","6">>] >>])
R_html == Response(signal_url, [BlankBody EXCEPT !.kind = "html"])

\* responses of other hosts: the domain in capitals in the path, "EXPORT" in
\* capitals
R_upper_domain ==
    Response(<<"/","/","c","d","n",".","i","o","/","S","I","G","N","A","L",".","V","I","N">>,
             [BlankBody EXCEPT !.kind = "func"])
R_upper_export ==
    Response(<<"/","/","c","d","n",".","i","o","/","E","X","P","O","R","T">>,
             [BlankBody EXCEPT !.kind = "func"])
\* a response of the application whose text() raises
R_no_body == Response(url_retail, [BlankBody EXCEPT !.kind = "empty"])

\* offer/initial responses whose text is no JSON object: empty, an HTML
\* document, a function wrapper, broken JSON, a JSON array, JSON null
R_offer_empty == Response(url_offer_initial, [BlankBody EXCEPT !.kind = "empty"])
R_offer_html == Response(url_offer_initial, [BlankBody EXCEPT !.kind = "html"])
R_offer_func == Response(url_offer_initial, [BlankBody EXCEPT !.kind = "func"])
R_offer_badjson == Response(url_offer_initial, [BlankBody EXCEPT !.kind = "badjson"])
R_offer_list == Response(url_offer_initial, [BlankBody EXCEPT !.kind = "list"])
R_offer_scalar == Response(url_offer_initial, [BlankBody EXCEPT !.kind = "scalar"])
\* offer/initial: scalar rate 1.25 and "offer_setup": null
R_offer_setup_null ==
    Response(url_offer_initial,
        [BlankBody EXCEPT !.exchange_rate = JNum(5, 4), !.offer_setup = JNull])
\* offer/initial: "current_weekly_depreciation_factor": "n/a"
R_offer_text ==
    Response(url_offer_initial,
        [BlankBody EXCEPT !.current_weekly_depreciation_factor = JStr("n/a")])

\* The buffer holds the names of the responses captured; TrafficLog gives the
\* dict that _capture_response stored for each.
TrafficLog(name) ==
    CASE name = "decode" -> R_decode
      [] name = "decode_toyota" -> R_decode_toyota
      [] name = "decode_blank" -> R_decode_blank
      [] name = "decode_duty_null" -> R_decode_duty_null
      [] name = "decode_duty_text" -> R_decode_duty_text
      [] name = "decode_duty_numstr" -> R_decode_duty_numstr
      [] name = "offer" -> R_offer
      [] name = "offer_plain" -> R_offer_plain
      [] name = "offer_neg" -> R_offer_neg
      [] name = "offer_negdays" -> R_offer_negdays
      [] name = "offer_zero" -> R_offer_zero
      [] name = "offer_bad" -> R_offer_bad
      [] name = "offer_empty" -> R_offer_empty
      [] name = "offer_html" -> R_offer_html
      [] name = "offer_func" -> R_offer_func
      [] name = "offer_badjson" -> R_offer_badjson
      [] name = "offer_list" -> R_offer_list
      [] name = "offer_scalar" -> R_offer_scalar
      [] name = "offer_setup_null" -> R_offer_setup_null
      [] name = "offer_text" -> R_offer_text
      [] name = "trends" -> R_trends
      [] name = "trends_2002" -> R_trends_2002
      [] name = "trends_history" -> R_trends_history
      [] name = "trends_history_only" -> R_trends_history_only
      [] name = "trends_zero" -> R_trends_zero
      [] name = "retail" -> R_retail
      [] name = "retail_short" -> R_retail_short
      [] name = "retail_mixed" -> R_retail_mixed
      [] name = "retail_twice" -> R_retail_twice
      [] name = "retail_frac" -> R_retail_frac
      [] name = "trends_export" -> R_trends_export
      [] name = "export2_carfax" -> R_export2_carfax
      [] name = "export2_Dashboard" -> R_export2_Dashboard
      [] name = "offer_only" -> R_offer_only
      [] name = "OFFER_upper" -> R_OFFER_upper
      [] name = "html" -> R_html
      [] name = "upper_domain" -> R_upper_domain
      [] name = "upper_export" -> R_upper_export
      [] name = "no_body" -> R_no_body

\* the dicts of a buffer
RECURSIVE Dicts(_)
Dicts(buf) == IF buf = <<>> THEN <<>> ELSE <<TrafficLog(Head(buf))>> \o Dicts(Tail(buf))

ExtractSamples ==
    {"decode", "offer", "offer_plain", "offer_neg", "offer_zero", "offer_bad",
     "trends", "trends_2002", "trends_history", "trends_zero",
     "retail", "retail_short"}

\* aria labels of a page: none, one with a price, one with a short number
LabelSets ==
    { <<>>,
      << <<"M","e","n","u">>, <<"$","1","2",",","3","4","5"," ","C","A","D">> >>,
      << <<"C","A","D"," ","9","9","9">> >> }

\* the sequences over S of length at most k
BoundedSeq(S, k) == UNION {[1..m -> S] : m \in 0..k}

(***************************************************************************)
(* SpecExtract: extract_export_value called once on a buffer and a page.   *)
(***************************************************************************)
MaxLen == 3

\* the result dict as appraise_vehicle creates it
NoneInt == [some |-> FALSE, v |-> 0]
SomeInt(v) == [some |-> TRUE, v |-> v]
NoError == "None"

\* the arguments of appraise_vehicle other than list_price: a row of the
\* inventory with every column, and a call that passes vin and odometer only
InventoryArgs ==
    [vin |-> JStr("V1"), odometer |-> JStr("1000"), trim |-> JStr("LX"),
     listing_url |-> JStr("//dealer/1"), carfax_link |-> JStr("//carfax/1"),
     make |-> JStr("Acura"), model |-> JStr("MDX"), year |-> JStr("2020")]
BareArgs ==
    [vin |-> JStr("V2"), odometer |-> JNum(2000, 1), trim |-> JNull,
     listing_url |-> JStr(""), carfax_link |-> JStr(""),
     make |-> JStr(""), model |-> JStr(""), year |-> JStr("")]

\* a result dict that takes make and model from the object, not the arguments
NewResult_DecodedMake(lp, a) ==
    [vin |-> a.vin, odometer |-> a.odometer, trim |-> a.trim, list_price |-> lp,
     listing_url |-> a.listing_url, carfax_link |-> a.carfax_link,
     make |-> vehicle_make, model |-> vehicle_model, year |-> a.year,
     signal_trim |-> JStr(""), export_value_cad |-> NoneStr,
     profit |-> NoneInt, status |-> "PENDING", error |-> NoError]

NewResult(lp, a) ==
    [vin |-> a.vin, odometer |-> a.odometer, trim |-> a.trim, list_price |-> lp,
     listing_url |-> a.listing_url, carfax_link |-> a.carfax_link,
     make |-> a.make, model |-> a.model, year |-> a.year,
     signal_trim |-> JStr(""), export_value_cad |-> NoneStr,
     profit |-> NoneInt, status |-> "PENDING", error |-> NoError]

\* the object after __init__, with no call of appraise_vehicle in progress
InitObject ==
    /\ vehicle_make = JStr("")
    /\ vehicle_model = JStr("")
    /\ vehicle_trim = JStr("")
    /\ extracted = NotExtracted
    /\ delivered = <<>>
    /\ foreign = FALSE

InitNoCall ==
    /\ av_pc = "idle"
    /\ attempt = 0
    /\ list_price = SomeInt(0)
    /\ args = BareArgs
    /\ result = NewResult(SomeInt(0), BareArgs)
    /\ export_value = NoneStr
    /\ exc = NoError
    /\ relogins = 0
    /\ scrolls = 0
    /\ extractions = 0

InitNoRun ==
    /\ run_pc = "none"
    /\ valid_rows = <<>>
    /\ credentials = TRUE
    /\ i = 0
    /\ should_stop = FALSE
    /\ events = <<>>
    /\ success_count = 0
    /\ error_count = 0
    /\ is_processing = FALSE
    /\ other_pc = "none"
    /\ posted = <<>>
    /\ save_rets = <<>>
    /\ row_events = <<>>
    /\ automation = "none"
    /\ other_browser = "none"

InitExtract ==
    /\ InitObject
    /\ captured_responses \in BoundedSeq(ExtractSamples, MaxLen)
    /\ aria_labels \in LabelSets
    /\ login_email = FALSE
    /\ page_url = signal_url
    /\ browser = "open"
    /\ InitNoCall
    /\ InitNoRun

\* a call of extract_export_value that runs to its return or its exception
ExtractCall ==
    /\ extracted.method = "pending"
    /\ extracted' = ExtractExportValue(Dicts(captured_responses), aria_labels)
    /\ vehicle_make' = extracted'.signals.vehicle_make
    /\ vehicle_model' = extracted'.signals.vehicle_model
    /\ vehicle_trim' = extracted'.signals.vehicle_trim
    /\ UNCHANGED <<captured_responses, delivered, foreign, login_email, pageVars,
                   avVars, runVars>>

NextExtract == ExtractCall

SpecExtract == InitExtract /\ [][NextExtract]_vars

(***************************************************************************)
(* SpecFields: extract_export_value called once on a buffer of decode and  *)
(* offer/initial responses.                                                *)
(***************************************************************************)
MaxFieldLen == 4

FieldSamples ==
    {"decode", "decode_toyota", "decode_blank",
     "offer", "offer_plain", "offer_neg", "offer_bad"}

InitFields ==
    /\ InitObject
    /\ captured_responses \in BoundedSeq(FieldSamples, MaxFieldLen)
    /\ aria_labels = <<>>
    /\ login_email = FALSE
    /\ page_url = signal_url
    /\ browser = "open"
    /\ InitNoCall
    /\ InitNoRun

SpecFields == InitFields /\ [][NextExtract]_vars

(***************************************************************************)
(* SpecFallback: extract_export_value called once on a buffer that may     *)
(* hold the calculator's inputs and texts the patterns match, on a page    *)
(* that may have a price in an aria label.                                 *)
(***************************************************************************)
FallbackSamples ==
    {"offer_plain", "trends", "retail", "retail_mixed", "retail_twice",
     "retail_frac", "trends_export"}

InitFallback ==
    /\ InitObject
    /\ captured_responses \in BoundedSeq(FallbackSamples, MaxLen)
    /\ aria_labels \in LabelSets
    /\ login_email = FALSE
    /\ page_url = signal_url
    /\ browser = "open"
    /\ InitNoCall
    /\ InitNoRun

SpecFallback == InitFallback /\ [][NextExtract]_vars

(***************************************************************************)
(* SpecTrends: extract_export_value called once on a buffer of             *)
(* wholesale_value_trends responses.                                       *)
(***************************************************************************)
TrendsSamples ==
    {"trends", "trends_2002", "trends_history", "trends_history_only", "trends_zero"}

InitTrends ==
    /\ InitObject
    /\ captured_responses \in BoundedSeq(TrendsSamples, MaxLen)
    /\ aria_labels = <<>>
    /\ login_email = FALSE
    /\ page_url = signal_url
    /\ browser = "open"
    /\ InitNoCall
    /\ InitNoRun

SpecTrends == InitTrends /\ [][NextExtract]_vars

(***************************************************************************)
(* SpecDepreciation: extract_export_value called once on a buffer of       *)
(* offer/initial and wholesale_value_trends responses whose depreciation   *)
(* factor and days in inventory are positive, zero or negative.            *)
(***************************************************************************)
DepreciationSamples ==
    {"offer", "offer_plain", "offer_neg", "offer_negdays", "trends", "trends_2002"}

InitDepreciation ==
    /\ InitObject
    /\ captured_responses \in BoundedSeq(DepreciationSamples, MaxLen)
    /\ aria_labels = <<>>
    /\ login_email = FALSE
    /\ page_url = signal_url
    /\ browser = "open"
    /\ InitNoCall
    /\ InitNoRun

SpecDepreciation == InitDepreciation /\ [][NextExtract]_vars

(***************************************************************************)
(* SpecDuty: extract_export_value called once on a buffer of decode        *)
(* responses whose customs_duty_rate is a number, a numeral, null or a     *)
(* text, among offer/initial and wholesale_value_trends responses.         *)
(***************************************************************************)
DutySamples ==
    {"decode", "decode_duty_null", "decode_duty_text", "decode_duty_numstr",
     "offer_plain", "trends"}

InitDuty ==
    /\ InitObject
    /\ captured_responses \in BoundedSeq(DutySamples, MaxLen)
    /\ aria_labels = <<>>
    /\ login_email = FALSE
    /\ page_url = signal_url
    /\ browser = "open"
    /\ InitNoCall
    /\ InitNoRun

SpecDuty == InitDuty /\ [][NextExtract]_vars

(***************************************************************************)
(* SpecBodies: extract_export_value called once on a buffer of             *)
(* offer/initial responses whose bodies are not JSON, are JSON of another  *)
(* shape than the extractor reads, or are well formed.                     *)
(***************************************************************************)
BodySamples ==
    {"offer_empty", "offer_html", "offer_func", "offer_badjson", "offer_list",
     "offer_scalar", "offer_setup_null", "offer_bad", "offer_text",
     "offer_plain", "trends"}

InitBodies ==
    /\ InitObject
    /\ captured_responses \in BoundedSeq(BodySamples, MaxLen)
    /\ aria_labels = <<>>
    /\ login_email = FALSE
    /\ page_url = signal_url
    /\ browser = "open"
    /\ InitNoCall
    /\ InitNoRun

SpecBodies == InitBodies /\ [][NextExtract]_vars

(***************************************************************************)
(* SpecPatternUrls: extract_export_value called once on a buffer of        *)
(* responses that all hold a pattern match and differ in their URLs.       *)
(***************************************************************************)
PatternUrlSamples ==
    {"retail", "export2_carfax", "export2_Dashboard", "offer_only", "OFFER_upper",
     "trends_export"}

InitPatternUrls ==
    /\ InitObject
    /\ captured_responses \in BoundedSeq(PatternUrlSamples, MaxLen)
    /\ aria_labels = <<>>
    /\ login_email = FALSE
    /\ page_url = signal_url
    /\ browser = "open"
    /\ InitNoCall
    /\ InitNoRun

SpecPatternUrls == InitPatternUrls /\ [][NextExtract]_vars

(***************************************************************************)
(* The page and the network.                                               *)
(***************************************************************************)
url_appraisal == signal_url \o <<"/","a","p","p","r","a","i","s","a","l">>
url_login == signal_url \o <<"/","L","o","g","i","n">>
url_dashboard == signal_url \o <<"/">> \o skip_endpoints[6]

\* where a navigation to the appraisal URL can end
LandingUrls == {url_appraisal, url_login}

\* the test of _capture_response on a response's URL
IsCaptured(url) == Contains(url, s_signal_vin) \/ Contains(Lower(url), s_export)

\* the steps of appraise_vehicle during which a Playwright call is in progress,
\* so that the response callback can run
CapturePcs == {"goto", "relogin", "scroll", "rescroll", "except"}

\* response objects whose url property raises, and whose text() raises
UrlRaises == {"no_url"}
TextRaises == {"no_body"}

\* a callback that appends whatever the URL is, and one that appends a
\* response whose text() raises, which the code's does not
IsAppended_AnyUrl(name) == name \notin UrlRaises /\ name \notin TextRaises
IsAppended_TextErrorIgnored(name) ==
    name \notin UrlRaises /\ IsCaptured(TrafficLog(name).url)

\* whether _capture_response appends the response: the URL is read and tested,
\* then the body is read; an exception at either place is swallowed
IsAppended(name) ==
    /\ name \notin UrlRaises
    /\ IsCaptured(TrafficLog(name).url)
    /\ name \notin TextRaises

\* _capture_response for one response; own tells whether the page load of the
\* current attempt produced it, or an earlier one whose response is handed to
\* the callback once page.goto of this attempt lets the events through
CaptureResponse(name, own) ==
    /\ av_pc \in CapturePcs
    /\ own \/ av_pc = "goto"
    /\ Len(delivered) < MaxBuf
    /\ delivered' = Append(delivered, name)
    /\ captured_responses' =
          IF IsAppended(name) THEN Append(captured_responses, name)
          ELSE captured_responses
    /\ foreign' = (foreign \/ (IsAppended(name) /\ ~own))
    /\ UNCHANGED <<vehicle_make, vehicle_model, vehicle_trim, extracted,
                   login_email, pageVars, avVars, runVars>>

(***************************************************************************)
(* appraise_vehicle.  av_pc: "idle" (no call), "top" (the head of the      *)
(* while loop), "goto", "relogin", "scroll", "extract1", "rescroll",       *)
(* "extract2", "derive", "except", "returned".                             *)
(***************************************************************************)
\* bool(export_value)
StrTruthy(e) == e.some /\ e.v # <<>>

\* float(export_value) for the strings extract_export_value returns
StrToInt(v) ==
    IF v # <<>> /\ Head(v) = "-" THEN -DigitsToInt(Tail(v)) ELSE DigitsToInt(v)

\* "while True: attempt += 1", the buffer cleared
AttemptBegin ==
    /\ av_pc = "top"
    /\ attempt < MaxAttempts
    /\ attempt' = attempt + 1
    /\ captured_responses' = <<>>
    /\ delivered' = <<>>
    /\ foreign' = FALSE
    /\ relogins' = 0
    /\ scrolls' = 0
    /\ extractions' = 0
    /\ av_pc' = "goto"
    /\ UNCHANGED <<vehicle_make, vehicle_model, vehicle_trim, extracted, login_email,
                   pageVars, list_price, args, result, export_value, exc, runVars>>

\* where the code goes after reading the URL the navigation ended on
AfterGoto(url) == IF Contains(Lower(url), s_login) THEN "relogin" ELSE "scroll"

\* self.page.goto(url) returns; the URL and the title are read
GotoOk(url, labels) ==
    /\ av_pc = "goto"
    /\ browser = "open"
    /\ page_url' = url
    /\ aria_labels' = labels
    /\ av_pc' = AfterGoto(url)
    /\ UNCHANGED <<objVars, browser, login_email, attempt, list_price, args, result, export_value,
                   exc, relogins, scrolls, extractions, runVars>>

\* a Playwright call of the try block raises
PageRaises(pc, what) ==
    /\ av_pc = pc
    /\ exc' = what
    /\ av_pc' = "except"
    /\ UNCHANGED <<objVars, login_email, pageVars, attempt, list_price, args, result,
                   export_value, relogins, scrolls, extractions, runVars>>

\* a successful re-login that falls through to the scroll, which the code does
\* not do
AfterReLogin_FallThrough(ok) == IF ok THEN "scroll" ELSE "returned"

\* a re-login whose failure with stored credentials ends the call, which the
\* code's cannot
AfterReLogin_GivesUp(ok) == "returned"

\* where the code goes when re_login has returned ok
AfterReLogin(ok) == IF ok THEN "top" ELSE "returned"

\* self.re_login(): False without stored credentials, else auto_login, which
\* returns only True
ReLogin ==
    /\ av_pc = "relogin"
    /\ relogins' = relogins + 1
    /\ av_pc' = AfterReLogin(login_email)
    /\ IF login_email
       THEN /\ page_url' = url_dashboard
            /\ aria_labels' = <<>>
            /\ UNCHANGED browser
            /\ result' = result
       ELSE /\ UNCHANGED pageVars
            /\ result' = [result EXCEPT !.status = "SESSION_EXPIRED",
                                        !.error = "Re-login failed"]
    /\ UNCHANGED <<objVars, login_email, attempt, list_price, args, export_value, exc,
                   scrolls, extractions, runVars>>

\* the three scrolls and select_trim
ScrollOk ==
    /\ av_pc = "scroll"
    /\ scrolls' = scrolls + 1
    /\ av_pc' = "extract1"
    /\ UNCHANGED <<objVars, login_email, pageVars, attempt, list_price, args, result,
                   export_value, exc, relogins, extractions, runVars>>

\* passes that go on until one returns a value, which the code's do not
AfterExtract_UntilFound(pc, e) == IF ~StrTruthy(e) THEN "rescroll" ELSE "derive"

\* where the code goes after a pass that returned e
AfterExtract(pc, e) == IF pc = "extract1" /\ ~StrTruthy(e) THEN "rescroll" ELSE "derive"

\* export_value = self.extract_export_value(...), first or second pass
Extract(pc) ==
    /\ av_pc = pc
    /\ extracted' = ExtractExportValue(Dicts(captured_responses), aria_labels)
    /\ vehicle_make' = extracted'.signals.vehicle_make
    /\ vehicle_model' = extracted'.signals.vehicle_model
    /\ vehicle_trim' = extracted'.signals.vehicle_trim
    /\ extractions' = extractions + 1
    /\ IF extracted'.raised
       THEN /\ exc' = "extract"
            /\ av_pc' = "except"
            /\ UNCHANGED export_value
       ELSE /\ export_value' = extracted'.value
            /\ av_pc' = AfterExtract(pc, extracted'.value)
            /\ UNCHANGED exc
    /\ UNCHANGED <<captured_responses, delivered, foreign, login_email, pageVars,
                   attempt, list_price, args, result, relogins, scrolls, runVars>>

\* the scroll before the second pass
RescrollOk ==
    /\ av_pc = "rescroll"
    /\ scrolls' = scrolls + 1
    /\ av_pc' = "extract2"
    /\ UNCHANGED <<objVars, login_email, pageVars, attempt, list_price, args, result,
                   export_value, exc, relogins, extractions, runVars>>

\* mutant: an attempt without a value leaves the status as it is
StatusDerivation_NoDataUnset(res, e, lp, trim) ==
    IF StrTruthy(e)
    THEN LET r1 == [res EXCEPT !.export_value_cad = e]
             export_num == StrToInt(e.v)
         IN  IF export_num > 0 /\ ~lp.some
             THEN [raised |-> TRUE, result |-> r1]
             ELSE IF export_num > 0 /\ lp.v > 0
             THEN [raised |-> FALSE,
                   result |-> [r1 EXCEPT !.profit = SomeInt(export_num - lp.v),
                                         !.status = IF export_num - lp.v > 0
                                                    THEN "PROFIT" ELSE "LOSS",
                                         !.signal_trim = trim]]
             ELSE [raised |-> FALSE,
                   result |-> [r1 EXCEPT !.status = IF lp.some /\ lp.v = 0
                                                    THEN "NO PRICE" ELSE "SUCCESS",
                                         !.signal_trim = trim]]
    ELSE [raised |-> FALSE,
          result |-> [res EXCEPT !.error = "Could not extract export value",
                                 !.signal_trim = trim]]

\* lines 1279-1292: the result of an attempt that ran to its end; raised where
\* "list_price > 0" raises TypeError on None
StatusDerivation(res, e, lp, trim) ==
    IF StrTruthy(e)
    THEN LET r1 == [res EXCEPT !.export_value_cad = e]
             export_num == StrToInt(e.v)
         IN  IF export_num > 0 /\ ~lp.some
             THEN [raised |-> TRUE, result |-> r1]
             ELSE IF export_num > 0 /\ lp.v > 0
             THEN [raised |-> FALSE,
                   result |-> [r1 EXCEPT !.profit = SomeInt(export_num - lp.v),
                                         !.status = IF export_num - lp.v > 0
                                                    THEN "PROFIT" ELSE "LOSS",
                                         !.signal_trim = trim]]
             ELSE [raised |-> FALSE,
                   result |-> [r1 EXCEPT !.status = IF lp.some /\ lp.v = 0
                                                    THEN "NO PRICE" ELSE "SUCCESS",
                                         !.signal_trim = trim]]
    ELSE [raised |-> FALSE,
          result |-> [res EXCEPT !.status = "NO DATA",
                                 !.error = "Could not extract export value",
                                 !.signal_trim = trim]]

Derive ==
    /\ av_pc = "derive"
    /\ LET d == StatusDerivation(result, export_value, list_price, vehicle_trim)
       IN  /\ result' = d.result
           /\ av_pc' = IF d.raised THEN "except" ELSE "returned"
           /\ exc' = IF d.raised THEN "TypeError" ELSE exc
    /\ UNCHANGED <<objVars, login_email, pageVars, attempt, list_price, args, export_value,
                   relogins, scrolls, extractions, runVars>>

\* a give-up after two attempts, which the code does not have
AfterExcept_GiveUp(n) == IF n >= 2 THEN "returned" ELSE "top"

\* where the code goes after the except block of attempt n
AfterExcept(n) == "top"

\* the except block: the error recorded, the page reset by a navigation to the
\* application root or, when that raises, by stop(), start() and re_login();
\* with the browser closed the navigation raises, and up tells whether start()
\* then succeeds
Except(url, up) ==
    /\ av_pc = "except"
    /\ result' = [result EXCEPT !.error = exc, !.status = "ERROR"]
    /\ page_url' = url
    /\ aria_labels' = <<>>
    /\ browser' = IF browser = "open" \/ up THEN "open" ELSE "closed"
    /\ av_pc' = AfterExcept(attempt)
    /\ UNCHANGED <<objVars, login_email, attempt, list_price, args, export_value, exc,
                   relogins, scrolls, extractions, runVars>>

(***************************************************************************)
(* SpecAppraise: one call of appraise_vehicle on a started object, with    *)
(* or without credentials stored by an earlier auto_login.                 *)
(***************************************************************************)
\* list prices a caller passes: None, 0, below and above the sample values
ListPrices == {NoneInt, SomeInt(0), SomeInt(12000), SomeInt(30000)}

\* the responses the application sends while a vehicle page loads
AppraiseSamples == {"offer_neg", "trends_2002", "offer_bad"}

\* the labels of the appraisal page
AppraiseLabels == {<<>>, << <<"$","1","2",",","3","4","5"," ","C","A","D">> >>}

\* where the recovery of the except block can leave the page
RecoveryUrls == {url_dashboard, url_login}

InitAppraise ==
    /\ InitObject
    /\ captured_responses = <<>>
    /\ login_email \in BOOLEAN
    /\ page_url = url_dashboard
    /\ aria_labels = <<>>
    /\ browser = "open"
    /\ av_pc = "top"
    /\ attempt = 0
    /\ list_price \in ListPrices
    /\ args = InventoryArgs
    /\ result = NewResult(list_price, args)
    /\ export_value = NoneStr
    /\ exc = NoError
    /\ relogins = 0
    /\ scrolls = 0
    /\ extractions = 0
    /\ InitNoRun

NextAppraise ==
    \/ AttemptBegin
    \/ \E name \in AppraiseSamples : CaptureResponse(name, TRUE)
    \/ \E url \in LandingUrls, labels \in AppraiseLabels : GotoOk(url, labels)
    \/ \E pc \in {"goto", "scroll", "rescroll"} : PageRaises(pc, "PageError")
    \/ ReLogin
    \/ ScrollOk
    \/ \E pc \in {"extract1", "extract2"} : Extract(pc)
    \/ RescrollOk
    \/ Derive
    \/ \E url \in RecoveryUrls, up \in BOOLEAN : Except(url, up)

SpecAppraise == InitAppraise /\ [][NextAppraise]_vars

(***************************************************************************)
(* SpecPassThrough: one call of appraise_vehicle with the columns of an    *)
(* inventory row, or with vin and odometer only, on a page whose decode    *)
(* response names another make and model.                                  *)
(***************************************************************************)
PassThroughSamples == {"decode", "retail"}

InitPassThrough ==
    /\ InitObject
    /\ captured_responses = <<>>
    /\ login_email \in BOOLEAN
    /\ page_url = url_dashboard
    /\ aria_labels = <<>>
    /\ browser = "open"
    /\ av_pc = "top"
    /\ attempt = 0
    /\ list_price = SomeInt(12000)
    /\ args \in {InventoryArgs, BareArgs}
    /\ result = NewResult(list_price, args)
    /\ export_value = NoneStr
    /\ exc = NoError
    /\ relogins = 0
    /\ scrolls = 0
    /\ extractions = 0
    /\ InitNoRun

NextPassThrough ==
    \/ AttemptBegin
    \/ \E name \in PassThroughSamples : CaptureResponse(name, TRUE)
    \/ \E url \in LandingUrls : GotoOk(url, <<>>)
    \/ \E pc \in {"goto", "scroll", "rescroll"} : PageRaises(pc, "PageError")
    \/ ReLogin
    \/ ScrollOk
    \/ \E pc \in {"extract1", "extract2"} : Extract(pc)
    \/ RescrollOk
    \/ Derive
    \/ \E url \in RecoveryUrls, up \in BOOLEAN : Except(url, up)

SpecPassThrough == InitPassThrough /\ [][NextPassThrough]_vars

(***************************************************************************)
(* save_to_appraisal_results: the mapping of a result dict to the row that *)
(* is POSTed to the table appraisal_results, and the POST.                 *)
(***************************************************************************)
\* str.replace(',', '').replace('$', '').strip()
RECURSIVE CleanValue(_)
CleanValue(v) ==
    IF v = <<>> THEN <<>>
    ELSE (IF Head(v) \in {",", "$", " "} THEN <<>> ELSE <<Head(v)>>)
         \o CleanValue(Tail(v))

\* float() accepts the text: an optional sign and digits
IsNumeral(v) ==
    LET digits == IF v # <<>> /\ Head(v) = "-" THEN Tail(v) ELSE v
    IN  digits # <<>> /\ \A k \in 1..Len(digits) : IsDigit(digits[k])

\* export_val: None unless export_value_cad is truthy and float() accepts it
ExportVal(e) ==
    IF StrTruthy(e) /\ IsNumeral(CleanValue(e.v))
    THEN SomeInt(StrToInt(CleanValue(e.v)))
    ELSE NoneInt

\* x or ''
OrEmpty(v) == IF JTruthy(v) THEN v ELSE JStr("")

\* str(x): a str is itself, a number becomes its text
PyStr(v) == IF v.t = "str" THEN v ELSE [v EXCEPT !.t = "strof"]

\* a payload that carries a sequence number, which the code's does not
Payload_Numbered(res) == [status |-> res.status, seq |-> Len(posted)]

\* the payload dict
Payload(res) ==
    [vin |-> res.vin,
     kilometers |-> PyStr(res.odometer),
     listing_link |-> OrEmpty(res.listing_url),
     carfax_link |-> OrEmpty(res.carfax_link),
     make |-> OrEmpty(res.make),
     model |-> OrEmpty(res.model),
     trim |-> OrEmpty(res.signal_trim),
     price |-> res.list_price,
     export_value |-> ExportVal(res.export_value_cad),
     profit |-> res.profit,
     status |-> res.status]

\* what requests.post does: a response with a status code, or an exception
PostOutcomes == {"200", "201", "204", "400", "500", "raises"}

\* the return value: True for status 200 or 201, False for any other status
\* and for an exception
ReturnValue(outcome) == outcome \in {"200", "201"}

\* a call that repeats a failed POST once
Requests_Retried(payload, outcome) ==
    IF outcome \in {"200", "201"}
    THEN <<[payload |-> payload, outcome |-> outcome]>>
    ELSE <<[payload |-> payload, outcome |-> outcome],
           [payload |-> payload, outcome |-> outcome]>>

\* the requests one call makes
Requests(payload, outcome) == <<[payload |-> payload, outcome |-> outcome]>>

MaxSaves == 2

\* save_to_appraisal_results(supabase_url, api_key, result)
SaveCall(outcome) ==
    /\ Len(save_rets) < MaxSaves
    /\ posted' = posted \o Requests(Payload(result), outcome)
    /\ save_rets' = Append(save_rets, ReturnValue(outcome))
    /\ UNCHANGED <<objVars, login_email, pageVars, avVars, run_pc, valid_rows,
                   credentials, i, should_stop, events, success_count, error_count,
                   is_processing, other_pc, row_events, automation, other_browser>>

(***************************************************************************)
(* SpecSave: save_to_appraisal_results called on a result dict, more than  *)
(* once, with every outcome of the POST.                                   *)
(***************************************************************************)
\* values of export_value_cad: None, '', what extract_export_value returns,
\* and texts another caller may pass
ExportTexts ==
    {NoneStr, SomeStr(<<>>), SomeStr(<<"2","3","4","5","6">>),
     SomeStr(<<"-","5","0","0">>), SomeStr(<<"$","1","2",",","3","4","5">>),
     SomeStr(<<"N","/","A">>)}

SaveResults ==
    {[NewResult(lp, a) EXCEPT !.export_value_cad = e, !.profit = pr,
                              !.signal_trim = tr, !.status = "SUCCESS"] :
        lp \in ListPrices, a \in {InventoryArgs, BareArgs}, e \in ExportTexts,
        pr \in {NoneInt, SomeInt(-500)}, tr \in {JStr(""), JStr("EX")}}

InitSave ==
    /\ InitObject
    /\ captured_responses = <<>>
    /\ login_email = FALSE
    /\ page_url = signal_url
    /\ aria_labels = <<>>
    /\ browser = "open"
    /\ av_pc = "idle"
    /\ attempt = 0
    /\ result \in SaveResults
    /\ list_price = result.list_price
    /\ args = BareArgs
    /\ export_value = NoneStr
    /\ exc = NoError
    /\ relogins = 0
    /\ scrolls = 0
    /\ extractions = 0
    /\ InitNoRun

NextSave == \E outcome \in PostOutcomes : SaveCall(outcome)

SpecSave == InitSave /\ [][NextSave]_vars

(***************************************************************************)
(* SpecCapture: one call of appraise_vehicle during which responses of any *)
(* host arrive, some of them unreadable, some of them produced by an       *)
(* earlier page load.                                                      *)
(***************************************************************************)
CaptureSamples == {"retail", "upper_domain", "upper_export", "no_body", "no_url"}

InitCapture ==
    /\ InitObject
    /\ captured_responses = <<>>
    /\ login_email = TRUE
    /\ page_url = url_dashboard
    /\ aria_labels = <<>>
    /\ browser = "open"
    /\ av_pc = "top"
    /\ attempt = 0
    /\ list_price = SomeInt(12000)
    /\ args = InventoryArgs
    /\ result = NewResult(list_price, args)
    /\ export_value = NoneStr
    /\ exc = NoError
    /\ relogins = 0
    /\ scrolls = 0
    /\ extractions = 0
    /\ InitNoRun

NextCapture ==
    \/ AttemptBegin
    \/ \E name \in CaptureSamples, own \in BOOLEAN : CaptureResponse(name, own)
    \/ \E url \in LandingUrls : GotoOk(url, <<>>)
    \/ \E pc \in {"goto", "scroll", "rescroll"} : PageRaises(pc, "PageError")
    \/ ReLogin
    \/ ScrollOk
    \/ \E pc \in {"extract1", "extract2"} : Extract(pc)
    \/ RescrollOk
    \/ Derive
    \/ \E url \in RecoveryUrls, up \in BOOLEAN : Except(url, up)

SpecCapture == InitCapture /\ [][NextCapture]_vars

(***************************************************************************)
(* SpecTrim: one call of appraise_vehicle.  The page load of the current   *)
(* attempt produces the responses of TrimSamples; the page of the vehicle  *)
(* appraised before produced a decode response (trim LE) that may be       *)
(* handed to the callback during page.goto of the current attempt.         *)
(***************************************************************************)
TrimSamples == {"decode", "decode_blank", "retail"}
EarlierSample == "decode_toyota"

InitTrim ==
    /\ InitObject
    /\ captured_responses = <<>>
    /\ login_email \in BOOLEAN
    /\ page_url = url_dashboard
    /\ aria_labels = <<>>
    /\ browser = "open"
    /\ av_pc = "top"
    /\ attempt = 0
    /\ list_price = SomeInt(12000)
    /\ args = InventoryArgs
    /\ result = NewResult(list_price, args)
    /\ export_value = NoneStr
    /\ exc = NoError
    /\ relogins = 0
    /\ scrolls = 0
    /\ extractions = 0
    /\ InitNoRun

NextTrim ==
    \/ AttemptBegin
    \/ \E name \in TrimSamples : CaptureResponse(name, TRUE)
    \/ CaptureResponse(EarlierSample, FALSE)
    \/ \E url \in LandingUrls : GotoOk(url, <<>>)
    \/ \E pc \in {"goto", "scroll", "rescroll"} : PageRaises(pc, "PageError")
    \/ ReLogin
    \/ ScrollOk
    \/ \E pc \in {"extract1", "extract2"} : Extract(pc)
    \/ RescrollOk
    \/ Derive
    \/ \E url \in RecoveryUrls, up \in BOOLEAN : Except(url, up)

SpecTrim == InitTrim /\ [][NextTrim]_vars

(***************************************************************************)
(* server.py: POST /api/process and its generator, POST /api/stop.         *)
(* run_pc: "none" (no request yet), "checked", "rejected" (the 400         *)
(* response), "begin", "start", "login", "after_login", "row" (the head of *)
(* the for loop), "restart", "item", "appraising", "finally", "done".  An  *)
(* event is its type and a word for its message.                           *)
(***************************************************************************)
Event(type, msg) == [type |-> type, msg |-> msg]
Log(msg) == Event("log", msg)

\* rows of config['valid_rows']: which keys the item has, and its list_price
RowOk == [vin |-> TRUE, odometer |-> TRUE, list_price |-> SomeInt(12000)]
RowNoVin == [vin |-> FALSE, odometer |-> TRUE, list_price |-> SomeInt(12000)]
RowNoOdometer == [vin |-> TRUE, odometer |-> FALSE, list_price |-> SomeInt(12000)]

\* the columns of a row that the call passes on besides list_price
RowArgs(row) == InventoryArgs

\* the row lists of a request: the empty list, and lists of MaxRows rows with at
\* most one row that lacks a key
RowLists ==
    {<<>>} \cup
    {[k \in 1..MaxRows |-> IF k = j THEN bad ELSE RowOk] :
        j \in 0..MaxRows, bad \in {RowNoVin, RowNoOdometer}}

\* the browser is restarted before every row whose index is a multiple of this
RestartEvery == 3

\* where process_vins goes after "if is_processing": the 400 response, or on
AfterCheck(busy) == IF busy THEN "rejected" ELSE "checked"

\* process_vins, the test of is_processing
ProcessVinsCheck ==
    /\ run_pc = "none"
    /\ run_pc' = AfterCheck(is_processing)
    /\ UNCHANGED <<objVars, login_email, pageVars, avVars, valid_rows, credentials, i,
                   should_stop, events, success_count, error_count, is_processing>>
    /\ UNCHANGED <<other_pc, posted, save_rets, row_events, automation, other_browser>>

\* process_vins from "config = request.json" to the creation of the generator
ProcessVinsAccept(rows) ==
    /\ run_pc = "checked"
    /\ is_processing' = TRUE
    /\ should_stop' = FALSE
    /\ valid_rows' = rows
    /\ run_pc' = "begin"
    /\ UNCHANGED <<objVars, login_email, pageVars, avVars, credentials, i, events,
                   success_count, error_count>>
    /\ UNCHANGED <<other_pc, posted, save_rets, row_events, automation, other_browser>>

\* generate up to the construction of the automation object
GenBegin ==
    /\ run_pc = "begin"
    /\ IF Len(valid_rows) = 0
       THEN /\ events' = Append(events, Event("error", "no valid vins"))
            /\ run_pc' = "finally"
       ELSE /\ events' = events \o <<Log("total"), Log("starting browser")>>
            /\ run_pc' = "start"
    /\ UNCHANGED <<objVars, login_email, pageVars, avVars, valid_rows, credentials, i,
                   should_stop, success_count, error_count, is_processing>>
    /\ UNCHANGED <<other_pc, posted, save_rets, row_events, automation, other_browser>>

\* automation = SignalVinAutomation(...) and automation.start(), then the
\* credentials are read and tested
StartOk ==
    /\ run_pc = "start"
    /\ captured_responses' = <<>>
    /\ vehicle_make' = JStr("")
    /\ vehicle_model' = JStr("")
    /\ vehicle_trim' = JStr("")
    /\ delivered' = <<>>
    /\ foreign' = FALSE
    /\ login_email' = FALSE
    /\ page_url' = <<>>
    /\ aria_labels' = <<>>
    /\ browser' = "open"
    /\ events' = events \o <<Log("logging in"), Log("email loaded"), Log("password loaded")>>
                        \o IF credentials THEN <<>> ELSE <<Event("error", "credentials")>>
    /\ run_pc' = IF credentials THEN "login" ELSE "finally"
    /\ automation' = "own"
    /\ UNCHANGED <<extracted, avVars, valid_rows, credentials, i, should_stop,
                   success_count, error_count, is_processing>>
    /\ UNCHANGED <<other_pc, posted, save_rets, row_events, other_browser>>

\* automation.start() raises: the outer except
StartRaises ==
    /\ run_pc = "start"
    /\ events' = Append(events, Event("error", "exception"))
    /\ run_pc' = "finally"
    /\ automation' = "own"
    /\ UNCHANGED <<objVars, login_email, pageVars, avVars, valid_rows, credentials, i,
                   should_stop, success_count, error_count, is_processing>>
    /\ UNCHANGED <<other_pc, posted, save_rets, row_events, other_browser>>

\* the iterations the login loop makes at most
LoginAttempts == 10

\* what the login loop yields when every iteration raises
FailedLogins ==
    [k \in 1..(2 * LoginAttempts) |->
        IF k % 2 = 1 THEN Log("login attempt") ELSE Log("login error")]

\* the login loop: skipped when should_stop is set.  Else automation.auto_login
\* is called on the object the global names: on an object with an open browser
\* it returns True in the first iteration (it returns only True; on a closed
\* browser it never returns), and on None every iteration raises
\* AttributeError, which the loop catches, until attempt reaches 10
LoginLoop ==
    /\ run_pc = "login"
    /\ IF should_stop
       THEN UNCHANGED <<login_email, pageVars, events>>
       ELSE CASE automation = "own" ->
                 /\ browser = "open"
                 /\ login_email' = TRUE
                 /\ page_url' = url_dashboard
                 /\ aria_labels' = <<>>
                 /\ UNCHANGED browser
                 /\ events' = events \o <<Log("login attempt"), Log("login successful")>>
              [] automation = "other" ->
                 /\ other_browser = "open"
                 /\ events' = events \o <<Log("login attempt"), Log("login successful")>>
                 /\ UNCHANGED <<login_email, pageVars>>
              [] automation = "none" ->
                 /\ events' = events \o FailedLogins
                 /\ UNCHANGED <<login_email, pageVars>>
    /\ run_pc' = "after_login"
    /\ UNCHANGED <<objVars, avVars, valid_rows, credentials, i, should_stop,
                   success_count, error_count, is_processing>>
    /\ UNCHANGED <<other_pc, posted, save_rets, row_events, automation, other_browser>>

\* "if should_stop: return" after the login loop
ReturnsAfterLogin(stop) == stop

\* "if should_stop: return", else the counters are set and the for loop begins
AfterLogin ==
    /\ run_pc = "after_login"
    /\ IF ReturnsAfterLogin(should_stop)
       THEN /\ events' = Append(events, Log("processing stopped"))
            /\ run_pc' = "finally"
            /\ UNCHANGED <<i, success_count, error_count>>
       ELSE /\ i' = 0
            /\ success_count' = 0
            /\ error_count' = 0
            /\ run_pc' = "row"
            /\ UNCHANGED events
    /\ UNCHANGED <<objVars, login_email, pageVars, avVars, valid_rows, credentials,
                   should_stop, is_processing>>
    /\ UNCHANGED <<other_pc, posted, save_rets, row_events, automation, other_browser>>

\* a loop head that does not read should_stop, which the code's does
LoopEnds_IgnoresStop(idx, rows, stop) == idx >= Len(rows)

\* whether the for loop ends at its head: the rows are used up, or
\* "if should_stop: break"
LoopEnds(idx, rows, stop) == idx >= Len(rows) \/ stop

\* a restart that is also due before the first row, which the code's is not
RestartDue_AlsoFirst(idx) == idx % RestartEvery = 0

\* "if i > 0 and i % 3 == 0"
RestartDue(idx) == idx > 0 /\ idx % RestartEvery = 0

\* a progress that counts the rows done, which the code's does not
Progress_RowsDone(idx, total) == Rat(idx, total)

\* "progress = (i + 1) / total"
Progress(idx, total) == Rat(idx + 1, total)

\* the progress event of row idx + 1, and the result event of its appraisal
ProgressEvent(idx, total) ==
    [type |-> "progress", row |-> idx + 1, progress |-> Progress(idx, total)]
ResultEvent(idx) == [type |-> "result", row |-> idx + 1, progress |-> Zero]

\* the head of "for i, item in enumerate(valid_rows)": the loop ends when the
\* rows are used up or should_stop is set, and the complete event follows
RowHead ==
    /\ run_pc = "row"
    /\ IF LoopEnds(i, valid_rows, should_stop)
       THEN /\ events' = Append(events, Event("complete", "completed"))
            /\ run_pc' = "finally"
       ELSE /\ events' = IF RestartDue(i)
                         THEN Append(events, Log("restarting browser")) ELSE events
            /\ run_pc' = IF RestartDue(i) THEN "restart" ELSE "item"
    /\ UNCHANGED <<objVars, login_email, pageVars, avVars, valid_rows, credentials, i,
                   should_stop, success_count, error_count, is_processing>>
    /\ UNCHANGED <<other_pc, posted, save_rets, row_events, automation, other_browser>>

\* stop(), start() and auto_login() of the restart
RestartOk ==
    /\ run_pc = "restart"
    /\ automation = "own"
    /\ login_email' = TRUE
    /\ page_url' = url_dashboard
    /\ aria_labels' = <<>>
    /\ browser' = "open"
    /\ events' = Append(events, Log("browser restarted"))
    /\ run_pc' = "item"
    /\ UNCHANGED <<objVars, avVars, valid_rows, credentials, i, should_stop,
                   success_count, error_count, is_processing>>
    /\ UNCHANGED <<other_pc, posted, save_rets, row_events, automation, other_browser>>

\* stop() has closed the browser and start() raises, which the try block of
\* the restart catches
RestartRaises ==
    /\ run_pc = "restart"
    /\ browser' = "closed"
    /\ events' = Append(events, Log("restart error"))
    /\ run_pc' = "item"
    /\ UNCHANGED <<objVars, login_email, page_url, aria_labels, avVars, valid_rows, credentials, i,
                   should_stop, success_count, error_count, is_processing>>
    /\ UNCHANGED <<other_pc, posted, save_rets, row_events, automation, other_browser>>

\* "vin = item['vin']" for an item without the key: KeyError outside the inner
\* try, caught by the outer except
ReadVinRaises ==
    /\ run_pc = "item"
    /\ ~valid_rows[i + 1].vin
    /\ events' = Append(events, Event("error", "exception"))
    /\ run_pc' = "finally"
    /\ UNCHANGED <<objVars, login_email, pageVars, avVars, valid_rows, credentials, i,
                   should_stop, success_count, error_count, is_processing>>
    /\ UNCHANGED <<other_pc, posted, save_rets, row_events, automation, other_browser>>

\* the progress and log events, then item['odometer'] raises KeyError inside the
\* inner try
ReadOdometerRaises ==
    /\ run_pc = "item"
    /\ valid_rows[i + 1].vin
    /\ ~valid_rows[i + 1].odometer
    /\ events' = events \o <<Event("progress", "processing"), Log("processing vin"),
                             Log("error processing")>>
    /\ row_events' = Append(row_events, ProgressEvent(i, Len(valid_rows)))
    /\ error_count' = error_count + 1
    /\ i' = i + 1
    /\ run_pc' = "row"
    /\ UNCHANGED <<objVars, login_email, pageVars, avVars, valid_rows, credentials,
                   should_stop, success_count, is_processing>>
    /\ UNCHANGED <<other_pc, posted, save_rets, automation, other_browser>>

\* the progress and log events, then appraise_vehicle is entered
CallAppraise ==
    /\ run_pc = "item"
    /\ automation = "own"
    /\ valid_rows[i + 1].vin
    /\ valid_rows[i + 1].odometer
    /\ events' = events \o <<Event("progress", "processing"), Log("processing vin")>>
    /\ row_events' = Append(row_events, ProgressEvent(i, Len(valid_rows)))
    /\ av_pc' = "top"
    /\ attempt' = 0
    /\ list_price' = valid_rows[i + 1].list_price
    /\ args' = RowArgs(valid_rows[i + 1])
    /\ result' = NewResult(valid_rows[i + 1].list_price, args')
    /\ export_value' = NoneStr
    /\ exc' = NoError
    /\ relogins' = 0
    /\ scrolls' = 0
    /\ extractions' = 0
    /\ run_pc' = "appraising"
    /\ UNCHANGED <<objVars, login_email, pageVars, valid_rows, credentials, i,
                   should_stop, success_count, error_count, is_processing>>
    /\ UNCHANGED <<other_pc, posted, save_rets, automation, other_browser>>

\* the log events that follow the result event
ResultLogs(res) ==
    IF StrTruthy(res.export_value_cad)
    THEN <<Log("export value")>> \o
         (IF res.profit.some /\ res.profit.v > 0 THEN <<Log("profit")>>
          ELSE IF res.profit.some /\ res.profit.v # 0 THEN <<Log("loss")>>
          ELSE <<>>)
    ELSE <<Log("no export value")>>

\* appraise_vehicle has returned: the result event, the counters, the next row
AppraiseReturns ==
    /\ run_pc = "appraising"
    /\ av_pc = "returned"
    /\ events' = Append(events, Event("result", result.status)) \o ResultLogs(result)
    /\ row_events' = Append(row_events, ResultEvent(i))
    /\ success_count' = IF StrTruthy(result.export_value_cad)
                        THEN success_count + 1 ELSE success_count
    /\ i' = i + 1
    /\ av_pc' = "idle"
    /\ run_pc' = "row"
    /\ UNCHANGED <<objVars, login_email, pageVars, attempt, list_price, args, result,
                   export_value, exc, relogins, scrolls, extractions, valid_rows,
                   credentials, should_stop, error_count, is_processing>>
    /\ UNCHANGED <<other_pc, posted, save_rets, automation, other_browser>>

\* the browser b of object obj after "if automation: automation.stop()":
\* stop() closes the browser of the object the global names
Stopped(handle, obj, b) == IF handle = obj /\ b = "open" THEN "closed" ELSE b

\* the finally block: the flag is cleared, the object the global names is
\* stopped and the global is set to None
Finally ==
    /\ run_pc = "finally"
    /\ is_processing' = FALSE
    /\ browser' = Stopped(automation, "own", browser)
    /\ other_browser' = Stopped(automation, "other", other_browser)
    /\ automation' = "none"
    /\ run_pc' = "done"
    /\ UNCHANGED <<objVars, login_email, page_url, aria_labels, avVars, valid_rows, credentials, i,
                   should_stop, events, success_count, error_count>>
    /\ UNCHANGED <<other_pc, posted, save_rets, row_events>>

\* POST /api/stop
StopProcessing ==
    /\ should_stop' = TRUE
    /\ UNCHANGED <<objVars, login_email, pageVars, avVars, run_pc, valid_rows,
                   credentials, i, events, success_count, error_count, is_processing>>
    /\ UNCHANGED <<other_pc, posted, save_rets, row_events, automation, other_browser>>

\* A second POST /api/process, served by another thread of the server
\* (threaded=True).  other_pc: "none", "checked", "rejected", "started" (its
\* generator runs), "done".
OtherCheck ==
    /\ other_pc = "none"
    /\ other_pc' = AfterCheck(is_processing)
    /\ UNCHANGED <<posted, save_rets, row_events, automation, other_browser>>
    /\ UNCHANGED <<objVars, login_email, pageVars, avVars, run_pc, valid_rows,
                   credentials, i, should_stop, events, success_count, error_count,
                   is_processing>>

OtherAccept ==
    /\ other_pc = "checked"
    /\ is_processing' = TRUE
    /\ should_stop' = FALSE
    /\ other_pc' = "started"
    /\ UNCHANGED <<posted, save_rets, row_events, automation, other_browser>>
    /\ UNCHANGED <<objVars, login_email, pageVars, avVars, run_pc, valid_rows,
                   credentials, i, events, success_count, error_count>>

\* the second request's generator constructs its SignalVinAutomation, assigns
\* it to the global automation and starts it
OtherStart ==
    /\ other_pc = "started"
    /\ other_browser = "none"
    /\ automation' = "other"
    /\ other_browser' = "open"
    /\ UNCHANGED <<other_pc, posted, save_rets, row_events>>
    /\ UNCHANGED <<objVars, login_email, pageVars, avVars, run_pc, valid_rows,
                   credentials, i, should_stop, events, success_count, error_count,
                   is_processing>>

\* the finally block of the second request's generator, reached with or
\* without a browser started (an empty row list returns before the start)
OtherFinally ==
    /\ other_pc = "started"
    /\ is_processing' = FALSE
    /\ browser' = Stopped(automation, "own", browser)
    /\ other_browser' = Stopped(automation, "other", other_browser)
    /\ automation' = "none"
    /\ other_pc' = "done"
    /\ UNCHANGED <<posted, save_rets, row_events>>
    /\ UNCHANGED <<objVars, login_email, page_url, aria_labels, avVars, run_pc, valid_rows,
                   credentials, i, should_stop, events, success_count, error_count>>

(***************************************************************************)
(* Spec: a server process that serves one processing request.              *)
(***************************************************************************)
\* the responses the application sends during a run
RunSamples == {"retail"}

\* the labels of the appraisal page during a run
RunLabels == {<<>>}

Init ==
    /\ InitObject
    /\ captured_responses = <<>>
    /\ login_email = FALSE
    /\ page_url = <<>>
    /\ aria_labels = <<>>
    /\ browser = "none"
    /\ InitNoCall
    /\ other_pc = "none"
    /\ posted = <<>>
    /\ save_rets = <<>>
    /\ row_events = <<>>
    /\ automation = "none"
    /\ other_browser = "none"
    /\ run_pc = "none"
    /\ valid_rows = <<>>
    /\ credentials \in BOOLEAN
    /\ i = 0
    /\ should_stop = FALSE
    /\ events = <<>>
    /\ success_count = 0
    /\ error_count = 0
    /\ is_processing = FALSE

Next ==
    \/ ProcessVinsCheck
    \/ \E rows \in RowLists : ProcessVinsAccept(rows)
    \/ GenBegin
    \/ StartOk
    \/ StartRaises
    \/ LoginLoop
    \/ AfterLogin
    \/ RowHead
    \/ RestartOk
    \/ RestartRaises
    \/ ReadVinRaises
    \/ ReadOdometerRaises
    \/ CallAppraise
    \/ AppraiseReturns
    \/ Finally
    \/ StopProcessing
    \/ AttemptBegin
    \/ \E name \in RunSamples : CaptureResponse(name, TRUE)
    \/ \E url \in LandingUrls, labels \in RunLabels : GotoOk(url, labels)
    \/ \E pc \in {"goto", "scroll", "rescroll"} : PageRaises(pc, "PageError")
    \/ ReLogin
    \/ ScrollOk
    \/ \E pc \in {"extract1", "extract2"} : Extract(pc)
    \/ RescrollOk
    \/ Derive
    \/ \E url \in RecoveryUrls, up \in BOOLEAN : Except(url, up)

Spec == Init /\ [][Next]_vars

(***************************************************************************)
(* SpecRequests: two POST /api/process requests served concurrently, on    *)
(* row lists that lead to no appraisal.                                    *)
(***************************************************************************)
RequestRows == {<<>>, <<RowNoOdometer>>, <<RowNoVin>>}

NextRequests ==
    \/ ProcessVinsCheck
    \/ \E rows \in RequestRows : ProcessVinsAccept(rows)
    \/ GenBegin
    \/ StartOk
    \/ StartRaises
    \/ LoginLoop
    \/ AfterLogin
    \/ RowHead
    \/ ReadVinRaises
    \/ ReadOdometerRaises
    \/ Finally
    \/ StopProcessing
    \/ OtherCheck
    \/ OtherAccept
    \/ OtherStart
    \/ OtherFinally

SpecRequests == Init /\ [][NextRequests]_vars

(***************************************************************************)
(* Claims about extract_export_value (checked under SpecExtract).          *)
(***************************************************************************)
\* a call of extract_export_value has returned
Returned == extracted.method \notin {"pending", "raised"}

\* x, or 0 when x is absent
AbsentAsZero(x) == IF x.some THEN x ELSE Zero

\* the integer nearest to a, the even one of the two when a lies halfway
NearestTiesEven(a) ==
    LET lo == a.n \div a.d
    IN  CHOOSE k \in {lo, lo + 1} :
            /\ 2 * Abs(k * a.d - a.n) <= a.d
            /\ (2 * Abs(k * a.d - a.n) = a.d => k % 2 = 0)

\* (W - export_cost - target_gpu - W*duty - W*rate*w) * (exchange_rate - fx_cushion)
ExportFormula(sig, rate, w) ==
    LET W == sig.us_wholesale_value
    IN  RMul(RSub(RSub(RSub(RSub(W, AbsentAsZero(sig.export_cost)),
                            AbsentAsZero(sig.target_gpu)),
                       RMul(W, sig.customs_duty_rate)),
                  RMul(W, RMul(rate, w))),
             RSub(sig.exchange_rate, sig.fx_cushion))

\* C1 as stated: whenever us_wholesale_value and exchange_rate are both present,
\* the call returns round((W - export_cost - target_gpu - W*customs_duty_rate
\* - W*(weekly_depreciation_factor/100)*(average_days_in_inventory/7))
\* * (exchange_rate - fx_cushion)) as a string, ties to even.
C1_ReturnsFormulaWhenPresent ==
    LET sig == extracted.signals
    IN  (Returned /\ sig.us_wholesale_value.some /\ sig.exchange_rate.some)
        => extracted.value =
             SomeStr(IntToStr(NearestTiesEven(
                 ExportFormula(sig, RMul(sig.weekly_depreciation_factor, Rat(1, 100)),
                               RMul(sig.average_days_in_inventory, Rat(1, 7))))))

\* C1 amended: whenever us_wholesale_value and exchange_rate are both present
\* and nonzero, the call returns the rounded formula (ties to even) as a string,
\* where the depreciation rate is weekly_depreciation_factor/100 only if the
\* factor is positive and the weeks are average_days_in_inventory/7 only if the
\* days are positive, each being 0 otherwise.
C1_ReturnsClampedFormulaWhenNonzero ==
    LET sig == extracted.signals
        rate == IF sig.weekly_depreciation_factor.n > 0
                THEN RMul(sig.weekly_depreciation_factor, Rat(1, 100)) ELSE Zero
        w == IF sig.average_days_in_inventory.n > 0
             THEN RMul(sig.average_days_in_inventory, Rat(1, 7)) ELSE Zero
    IN  (Returned /\ sig.us_wholesale_value.some /\ sig.us_wholesale_value.n # 0
                  /\ sig.exchange_rate.some /\ sig.exchange_rate.n # 0)
        => extracted.value = SomeStr(IntToStr(NearestTiesEven(ExportFormula(sig, rate, w))))

\* C1 witness: a computed value that is a tie rounded to the even neighbour, from
\* signals with a negative depreciation factor and positive days
C1_Witness ==
    /\ extracted.method = "calculator"
    /\ extracted.signals.weekly_depreciation_factor.n < 0
    /\ extracted.signals.average_days_in_inventory.n > 0
    /\ extracted.signals.us_wholesale_value = Rat(2002, 1)
    /\ extracted.value = SomeStr(<<"-","1","2","4","8">>)

\* C2 as stated: when us_wholesale_value and exchange_rate were both recovered
\* and one of them equals 0, the calculator still computes the formula.
C2_ComputesWhenPresentButZero ==
    LET sig == extracted.signals
    IN  (Returned /\ sig.us_wholesale_value.some /\ sig.exchange_rate.some
                  /\ (sig.us_wholesale_value.n = 0 \/ sig.exchange_rate.n = 0))
        => extracted.method = "calculator"

\* C2 amended: the calculator's precondition is that both values are present and
\* nonzero: it computes exactly then, and when both were recovered and one of
\* them equals 0 the value comes from the Fallback Scanner or is absent.
C2_ComputesIffPresentAndNonzero ==
    LET sig == extracted.signals
    IN  Returned =>
          (extracted.method = "calculator"
             <=> (sig.us_wholesale_value.some /\ sig.us_wholesale_value.n # 0
                  /\ sig.exchange_rate.some /\ sig.exchange_rate.n # 0))

\* C2 witness: both recovered, the wholesale value 0, and the fallback answered
C2_Witness ==
    /\ extracted.signals.us_wholesale_value = Zero
    /\ extracted.signals.exchange_rate.some
    /\ extracted.method = "pattern"

\* C3: if no captured response supplied us_wholesale_value, the returned value is
\* not a computed one: it comes from the Fallback Scanner or is absent.
C3_NoWholesaleNoComputation ==
    (Returned /\ ~extracted.signals.us_wholesale_value.some)
    => extracted.method \in {"pattern", "aria", "none"}

\* C3 witness: every other signal recovered, no wholesale value, fallback value
C3_Witness ==
    /\ Returned
    /\ ~extracted.signals.us_wholesale_value.some
    /\ extracted.signals.exchange_rate.some
    /\ extracted.signals.export_cost.some
    /\ extracted.method = "aria"

(***************************************************************************)
(* Claims about appraise_vehicle (checked under SpecAppraise).  The spec's *)
(* status names NO_PRICE and NO_DATA stand for the values the code writes, *)
(* "NO PRICE" and "NO DATA".                                               *)
(***************************************************************************)
\* the call has returned from the end of an attempt (not from a failed re-login)
ReturnedFromAttempt == av_pc = "returned" /\ result.status # "SESSION_EXPIRED"

\* the call has returned because re_login failed
ReturnedSessionExpired == av_pc = "returned" /\ relogins = 1

\* the export value the returning attempt obtained, as a number
ExportNum == StrToInt(export_value.v)

\* C4: whenever appraise_vehicle obtained an export value and both the export
\* value and list_price are present and nonzero, the returned status is PROFIT
\* if export_value - list_price > 0 and LOSS otherwise, and profit equals
\* export_value - list_price, a negative export value included.
C4_ProfitOrLossWhenBothNonzero ==
    (/\ ReturnedFromAttempt
     /\ StrTruthy(export_value)
     /\ ExportNum # 0
     /\ list_price.some
     /\ list_price.v # 0)
    => /\ result.profit = SomeInt(ExportNum - list_price.v)
       /\ result.status = IF ExportNum - list_price.v > 0 THEN "PROFIT" ELSE "LOSS"

\* the case of C4 that the code handles: a positive value below the list price
C4_Witness ==
    /\ ReturnedFromAttempt
    /\ StrTruthy(export_value)
    /\ ExportNum > 0
    /\ list_price = SomeInt(30000)
    /\ result.status = "LOSS"
    /\ result.profit = SomeInt(ExportNum - 30000)

\* C5: whenever appraise_vehicle obtained an export value and list_price is
\* zero or None, it returns with status NO_PRICE and profit absent.
C5_NoPriceWhenZeroOrNone ==
    (/\ ReturnedFromAttempt
     /\ StrTruthy(export_value)
     /\ (~list_price.some \/ list_price.v = 0))
    => /\ result.status = "NO PRICE"
       /\ ~result.profit.some

\* the case of C5 that the code handles: list_price 0
C5_Witness ==
    /\ ReturnedFromAttempt
    /\ StrTruthy(export_value)
    /\ list_price = SomeInt(0)
    /\ result.status = "NO PRICE"
    /\ ~result.profit.some

\* C6: if both extraction passes of an attempt yield nothing, appraise_vehicle
\* returns with status NO_DATA, export_value_cad absent, profit absent and an
\* error message set.
C6_NoDataLeavesValueAbsent ==
    (/\ ReturnedFromAttempt
     /\ extractions = 2
     /\ ~StrTruthy(export_value))
    => /\ result.status = "NO DATA"
       /\ ~result.export_value_cad.some
       /\ ~result.profit.some
       /\ result.error # NoError

\* the case of C6 on a first attempt
C6_Witness ==
    /\ ReturnedFromAttempt
    /\ attempt = 1
    /\ extractions = 2
    /\ result.status = "NO DATA"
    /\ ~result.export_value_cad.some
    /\ result.error # NoError

\* C8: when session expiry is detected and re-authentication fails,
\* appraise_vehicle returns with status SESSION_EXPIRED, export_value_cad and
\* profit absent, without scrolling or extracting in that attempt.
C8_SessionExpiredLeavesValueAbsent ==
    ReturnedSessionExpired
    => /\ result.status = "SESSION_EXPIRED"
       /\ ~result.export_value_cad.some
       /\ ~result.profit.some
       /\ scrolls = 0
       /\ extractions = 0

\* the case of C8 on a first attempt
C8_Witness ==
    /\ ReturnedSessionExpired
    /\ attempt = 1
    /\ result.status = "SESSION_EXPIRED"
    /\ ~result.export_value_cad.some

\* the status an attempt that ran to its end gives the result
AttemptStatus(e, lp) ==
    IF ~StrTruthy(e) THEN "NO DATA"
    ELSE IF StrToInt(e.v) > 0 /\ lp.v > 0
    THEN IF StrToInt(e.v) > lp.v THEN "PROFIT" ELSE "LOSS"
    ELSE IF lp.some /\ lp.v = 0 THEN "NO PRICE" ELSE "SUCCESS"

\* C9: appraise_vehicle never gives up on a VIN because of the number of
\* attempts: whatever the attempt number, the except block leads back to the
\* top of the loop, the call returns only from an attempt that ran to its end
\* (or from a failed re-login), and it then returns that attempt's status.
C9_NeverGivesUpOnAttemptCount ==
    [][ /\ (av_pc = "except" => av_pc' \in {"except", "top"})
        /\ (av_pc' = "returned" => av_pc \in {"derive", "relogin", "returned"})
        /\ (av_pc = "derive" /\ av_pc' = "returned"
              => result'.status = AttemptStatus(export_value, list_price)) ]_vars

\* every attempt but the last raised, and the last ran to its end
C9_Witness ==
    /\ av_pc = "returned"
    /\ attempt = MaxAttempts
    /\ ~login_email
    /\ result.status = "PROFIT"
    /\ result.error # NoError

(***************************************************************************)
(* Claims about a processing run (checked under Spec).                     *)
(***************************************************************************)
\* the events yielded so far include e
HasEvent(e) == \E k \in 1..Len(events) : events[k] = e

\* C7: when the URL after navigation contains "login", appraise_vehicle calls
\* re_login exactly once for that detection, scrolls and extracts nothing in
\* that attempt, and on success goes back to the top of its loop in the same
\* call, the index of the batch loop unchanged.
C7_LoginRedirectReauthenticatesOnce ==
    [][ /\ (av_pc = "goto" /\ av_pc' \notin {"goto", "except"}
              => (av_pc' = "relogin") = Contains(Lower(page_url'), s_login))
        /\ (av_pc = "relogin" => relogins = 0 /\ scrolls = 0 /\ extractions = 0)
        /\ (av_pc = "relogin" /\ av_pc' # "relogin"
              => /\ relogins' = 1
                 /\ scrolls' = 0
                 /\ extractions' = 0
                 /\ attempt' = attempt
                 /\ login_email => av_pc' = "top")
        /\ (run_pc = "appraising" /\ av_pc # "returned"
              => i' = i /\ run_pc' = run_pc /\ valid_rows' = valid_rows) ]_vars

\* a re-login has succeeded during a run and the call is back at the top of
\* its loop
C7_Witness ==
    /\ run_pc = "appraising"
    /\ av_pc = "top"
    /\ relogins = 1
    /\ scrolls = 0
    /\ extractions = 0
    /\ Contains(Lower(page_url), skip_endpoints[6])

\* C10: no error raised while processing one row stops the batch: once the
\* rows are being processed and nobody asks to stop, the run ends with every
\* row processed and a complete event.
C10_RowErrorsNeverStopTheBatch ==
    (/\ run_pc = "done"
     /\ HasEvent(Log("login successful"))
     /\ ~should_stop)
    => /\ HasEvent(Event("complete", "completed"))
       /\ i = Len(valid_rows)

\* the case of C10 that the code handles: a row without odometer is counted as
\* an error and the rows after it are processed
C10_Witness ==
    /\ run_pc = "done"
    /\ ~should_stop
    /\ error_count = 1
    /\ success_count > 0
    /\ i = Len(valid_rows)
    /\ HasEvent(Event("complete", "completed"))
    /\ ~valid_rows[1].odometer

\* C11 as stated: once should_stop is set, no appraisal of a further VIN begins.
C11_NoAppraisalBeginsOnceStopped ==
    [][should_stop => ~(run_pc # "appraising" /\ run_pc' = "appraising")]_vars

\* C11: should_stop is read at the head of each row iteration: when it is set
\* there, the loop ends and the complete event follows, so no further appraisal
\* begins; a stop set after that test (during the restart, or before or during
\* the appraisal of the row) does not interrupt the row: the appraisal begins
\* from the item step, runs until appraise_vehicle returns, and its result
\* event is emitted.
C11_StopIsReadAtTheLoopHead ==
    [][ /\ (run_pc = "row" /\ should_stop /\ run_pc' # run_pc
              => /\ run_pc' = "finally"
                 /\ events' = Append(events, Event("complete", "completed")))
        /\ (run_pc' = "appraising" /\ run_pc # "appraising" => run_pc = "item")
        /\ (run_pc = "appraising" /\ av_pc # "returned" => run_pc' = "appraising")
        /\ (run_pc = "appraising" /\ run_pc' # "appraising"
              => /\ av_pc = "returned"
                 /\ Len(events') > Len(events)
                 /\ events'[Len(events) + 1] = Event("result", result.status)) ]_vars

\* a stop that arrived while a row was processed: the result event of that row
\* is the latest result, and the loop ended before the rows were used up
C11_Witness ==
    /\ should_stop
    /\ run_pc = "finally"
    /\ i > 0
    /\ i < Len(valid_rows)
    /\ HasEvent(Event("result", "PROFIT"))
    /\ events[Len(events)] = Event("complete", "completed")

(***************************************************************************)
(* Claims about concurrent requests (checked under SpecRequests).          *)
(***************************************************************************)
\* the followed request has been accepted and its generator has not finished
RunActive == run_pc \notin {"none", "checked", "rejected", "done"}

\* C12: at most one processing run is active at any time: a request that
\* arrives while a run is active is rejected, so the run of the second request
\* is never started beside an active one.
C12_AtMostOneRunActive == ~(RunActive /\ other_pc = "started")

\* the case of C12 that the code handles: the second request tests
\* is_processing after the first has set it, and gets the 400 response
C12_Witness ==
    /\ RunActive
    /\ is_processing
    /\ other_pc = "rejected"

(***************************************************************************)
(* More claims about a processing run (checked under Spec).                *)
(***************************************************************************)
\* C13: when a required credential is missing, the run reports the fatal error
\* before any browser activity has taken place: no browser was launched when
\* the error event is yielded.
C13_CredentialErrorBeforeAnyBrowser ==
    HasEvent(Event("error", "credentials")) => browser = "none"

\* the part of C13 that the code does: the error is reported and the run ends
\* without a login or a navigation
C13_Witness ==
    /\ run_pc = "done"
    /\ ~credentials
    /\ events[Len(events)] = Event("error", "credentials")
    /\ ~login_email
    /\ page_url = <<>>
    /\ ~is_processing

(***************************************************************************)
(* Claims about the capture buffer (checked under SpecCapture).            *)
(***************************************************************************)
\* C14: the capture buffer is owned by the current attempt: at every
\* extraction pass every entry of captured_responses was produced by the
\* network activity of the current attempt.
C14_BufferOwnedByCurrentAttempt ==
    av_pc \in {"extract1", "extract2"} => ~foreign

\* the case of C14 that the code handles: what an earlier attempt captured is
\* gone at the extraction of a later one
C14_Witness ==
    /\ av_pc = "extract1"
    /\ attempt = 2
    /\ captured_responses = <<"retail">>
    /\ ~foreign
    /\ result.error = "PageError"

\* the response can be read, and its URL contains "signal.vin" or "export",
\* both compared without case
MatchesWithoutCase(name) ==
    /\ name \notin UrlRaises
    /\ name \notin TextRaises
    /\ (Contains(Lower(TrafficLog(name).url), s_signal_vin)
          \/ Contains(Lower(TrafficLog(name).url), s_export))

\* the response can be read, and its URL contains "signal.vin" as written or,
\* compared without case, "export"
MatchesAsWritten(name) ==
    /\ name \notin UrlRaises
    /\ name \notin TextRaises
    /\ (Contains(TrafficLog(name).url, s_signal_vin)
          \/ Contains(Lower(TrafficLog(name).url), s_export))

\* C15 as stated: a response is appended if and only if its URL, compared
\* case-insensitively, contains signal.vin or export.
C15_AppendedIffMatchesWithoutCase ==
    captured_responses = SelectSeq(delivered, MatchesWithoutCase)

\* C15: a readable response is appended if and only if its URL contains
\* "signal.vin" in exactly that spelling or contains "export" compared
\* case-insensitively: the buffer is, in order, the responses handed to the
\* callback since the clear that pass this test.
C15_AppendedIffMatchesAsWritten ==
    captured_responses = SelectSeq(delivered, MatchesAsWritten)

\* a URL with the domain in capitals is skipped, one with EXPORT in capitals
\* is appended
C15_Witness ==
    /\ delivered = <<"upper_domain", "upper_export">>
    /\ captured_responses = <<"upper_export">>

\* the response the callback was called with in this step, if any
Arrived(name) == delivered' = Append(delivered, name)

\* C16: when reading a response's URL or body fails, the callback raises
\* nothing and leaves the buffer as it was; otherwise the buffer changes only
\* by the clear at the head of an attempt or by appending the arriving response
\* at its end.
C16_UnreadableSkippedOthersAppended ==
    [][ /\ \A name \in UrlRaises \cup TextRaises :
              Arrived(name) => /\ captured_responses' = captured_responses
                               /\ av_pc' = av_pc
                               /\ exc' = exc
                               /\ result' = result
        /\ captured_responses' # captured_responses
              => \/ av_pc = "top" /\ captured_responses' = <<>>
                 \/ \E name \in CaptureSamples :
                       /\ Arrived(name)
                       /\ captured_responses' = Append(captured_responses, name) ]_vars

\* a response whose text() raised arrived after one that was appended
C16_Witness ==
    /\ delivered = <<"retail", "no_body">>
    /\ captured_responses = <<"retail">>
    /\ av_pc = "scroll"
    /\ exc = NoError

(***************************************************************************)
(* Claims about the fields of the first pass (checked under SpecFields).   *)
(***************************************************************************)
\* a call of extract_export_value has returned
PassReturned == extracted.method \notin {"pending", "raised"}

IsDecode(name) ==
    /\ Contains(TrafficLog(name).url, s_decode)
    /\ Contains(TrafficLog(name).url, s_signal_vin)
IsOfferInitial(name) == Contains(TrafficLog(name).url, s_offer_initial)

\* what the JSON of a response holds for a signal field
Reported(name, field) ==
    LET b == TrafficLog(name).body
    IN  CASE field = "vehicle_make" -> b.make
          [] field = "vehicle_model" -> b.model
          [] field = "exchange_rate" ->
                IF b.exchange_rate.t = "obj" THEN b.to_currency_rate
                ELSE b.exchange_rate
          [] field = "weekly_depreciation_factor" ->
                b.current_weekly_depreciation_factor
          [] field = "export_cost" -> b.export_cost_amount
          [] field = "target_gpu" -> b.target_gpu_amount
          [] field = "fx_cushion" -> b.fx_cushion_amount
          [] field = "average_days_in_inventory" -> b.average_days_in_inventory

VehicleFields == {"vehicle_make", "vehicle_model"}
OfferFields ==
    {"exchange_rate", "weekly_depreciation_factor", "export_cost", "target_gpu",
     "fx_cushion", "average_days_in_inventory"}

\* the response is of the endpoint of the field and has the field's key
Reports(name, field) ==
    /\ IF field \in VehicleFields THEN IsDecode(name) ELSE IsOfferInitial(name)
    /\ Has(Reported(name, field))

\* the positions of the buffer that report the field
Reporting(field) ==
    {k \in 1..Len(captured_responses) : Reports(captured_responses[k], field)}

Last(S) == CHOOSE k \in S : \A j \in S : j <= k
First(S) == CHOOSE k \in S : \A j \in S : k <= j

\* the value as the pass stores it
Stored(field, v) ==
    IF field \in VehicleFields THEN v
    ELSE IF field = "average_days_in_inventory" THEN PyInt(v).val
    ELSE PyFloat(v).val

\* C17: within one extraction pass the signal fields are last-write-wins in
\* buffer order: vehicle_make is the make of the last decode response that has
\* one, and each field read from offer/initial responses is the value of the
\* last offer/initial response that has it.
C17_LastWriteWinsPerField ==
    PassReturned =>
        \A field \in {"vehicle_make"} \cup OfferFields :
            extracted.signals[field] =
                IF Reporting(field) = {} THEN InitSignals[field]
                ELSE Stored(field, Reported(captured_responses[Last(Reporting(field))],
                                            field))

\* two decode responses with different makes and two offer/initial responses
\* with different rates and costs
C17_Witness ==
    /\ PassReturned
    /\ captured_responses = <<"decode", "offer", "decode_toyota", "offer_neg">>
    /\ vehicle_make = JStr("Toyota")
    /\ extracted.signals.exchange_rate = Rat(5, 4)
    /\ extracted.signals.export_cost = Rat(3000, 1)
    /\ extracted.signals.target_gpu = Rat(300, 1)

\* the trim a decode response offers: selected_trim, else suggested_trim
OfferedTrim(name) ==
    LET b == TrafficLog(name).body
    IN  IF Has(b.selected_trim) /\ JTruthy(b.selected_trim) THEN b.selected_trim
        ELSE IF Has(b.suggested_trim) /\ JTruthy(b.suggested_trim)
        THEN b.suggested_trim
        ELSE JStr("")

\* the positions of decode responses with a non-empty value of the field
NonEmpty(field) ==
    {k \in 1..Len(captured_responses) :
        /\ IsDecode(captured_responses[k])
        /\ JTruthy(IF field = "vehicle_trim" THEN OfferedTrim(captured_responses[k])
                   ELSE Reported(captured_responses[k], field))}

\* C18 as stated: each vehicle field takes the first non-empty value
\* encountered in the buffer, and no later decode response changes it.
C18_VehicleFieldsFirstNonEmpty ==
    PassReturned =>
        \A field \in VehicleFields \cup {"vehicle_trim"} :
            extracted.signals[field] =
                IF NonEmpty(field) = {} THEN JStr("")
                ELSE LET name == captured_responses[First(NonEmpty(field))]
                     IN  IF field = "vehicle_trim" THEN OfferedTrim(name)
                         ELSE Reported(name, field)

\* C18: vehicle_make and vehicle_model take the value of the last decode
\* response that has the key, empty or not; vehicle_trim takes the trim of the
\* last decode response that offers a non-empty selected_trim or, failing
\* that, a non-empty suggested_trim.
C18_VehicleFieldsLastDecode ==
    PassReturned =>
        /\ \A field \in VehicleFields :
              extracted.signals[field] =
                  IF Reporting(field) = {} THEN JStr("")
                  ELSE Reported(captured_responses[Last(Reporting(field))], field)
        /\ extracted.signals.vehicle_trim =
              IF NonEmpty("vehicle_trim") = {} THEN JStr("")
              ELSE OfferedTrim(captured_responses[Last(NonEmpty("vehicle_trim"))])
        /\ vehicle_make = extracted.signals.vehicle_make
        /\ vehicle_model = extracted.signals.vehicle_model
        /\ vehicle_trim = extracted.signals.vehicle_trim

\* a later decode response replaces the make by an empty one, the model stays
\* where that response has no model, the trim is the last non-empty one
C18_Witness ==
    /\ PassReturned
    /\ captured_responses = <<"decode_toyota", "decode", "decode_blank">>
    /\ vehicle_make = JStr("")
    /\ vehicle_model = JStr("Civic")
    /\ vehicle_trim = JStr("EX")

(***************************************************************************)
(* Claims about the fallback stages (checked under SpecFallback).          *)
(***************************************************************************)
\* the calculator has the two inputs it needs
Sufficient ==
    /\ Truthy(extracted.signals.us_wholesale_value)
    /\ Truthy(extracted.signals.exchange_rate)

\* the response at position k is one the pattern stage reads
Searched(k) ==
    LET url == TrafficLog(captured_responses[k]).url
        lowered == Lower(url)
    IN  /\ (Contains(url, s_export2) \/ Contains(url, s_offer))
        /\ \A e \in 1..Len(skip_endpoints) : ~Contains(lowered, skip_endpoints[e])

\* the keys of the patterns as re.I compares them
patterns_lowered ==
    <<Lower(patterns[1]), Lower(patterns[2]), Lower(patterns[3]),
      Lower(patterns[4]), Lower(patterns[5]), Lower(patterns[6])>>

\* the match of pattern j in the text at position k: the number at the first
\* place where the quoted key, compared without case, is followed by one
Match(k, j) ==
    LET raw == TrafficLog(captured_responses[k]).body.raw
        places == {p \in 1..Len(raw) :
                      raw[p].tok # <<>> /\ Lower(raw[p].key) = patterns_lowered[j]}
    IN  IF places = {} THEN NoneStr ELSE SomeStr(raw[First(places)].tok)

\* the patterns whose match at position k has an integer-cast value of at
\* least 4 digits
AcceptedAt(k) ==
    {j \in 1..Len(patterns) :
        LET m == Match(k, j)
        IN  m.some /\ val_int(m.v).ok /\ Len(val_int(m.v).v) >= 4}

\* the positions of searched responses with such a pattern
Accepting == {k \in 1..Len(captured_responses) : Searched(k) /\ AcceptedAt(k) # {}}

\* the page has an aria label the accessibility stage accepts
HasLabel == \E n \in 1..Len(aria_labels) : LabelValue(aria_labels[n]).some

\* C19: the fallback stages run only when the calculator lacks its inputs, and
\* in the order pattern stage, accessibility stage: a computed value is
\* returned whenever the inputs suffice, whatever the patterns and labels
\* offer; a pattern match is returned before any label; a label only when no
\* pattern match is accepted.
C19_CalculatorThenPatternThenAria ==
    PassReturned =>
        IF Sufficient
        THEN /\ extracted.method = "calculator"
             /\ extracted.value = SomeStr(Calculate(extracted.signals))
        ELSE IF Accepting # {} THEN extracted.method = "pattern"
        ELSE IF HasLabel
        THEN /\ extracted.method = "aria"
             /\ extracted.value = AriaStage(aria_labels)
        ELSE extracted.method = "none" /\ extracted.value = NoneStr

\* the value is computed although a pattern match and a label are at hand
C19_Witness ==
    /\ captured_responses = <<"retail", "offer_plain", "trends">>
    /\ HasLabel
    /\ extracted.method = "calculator"
    /\ extracted.value = SomeStr(<<"2","5","0","0","0">>)

\* C20: the pattern stage returns the integer-cast value of the first match,
\* in buffer order and then pattern-list order, whose value has at least 4
\* digits; matches with a shorter value are passed over.
C20_FirstAcceptedCandidate ==
    PassReturned /\ ~Sufficient =>
        LET accepting == Accepting
        IN  accepting # {} =>
                LET k == First(accepting)
                    j == First(AcceptedAt(k))
                IN  extracted.value = SomeStr(val_int(Match(k, j).v).v)

\* the first response is given up after its only match, a 3-digit one;
\* in the second one export_value 999 is passed over and appraised_value is
\* returned, not mmr_value that precedes it in the text
C20_Witness ==
    /\ captured_responses = <<"retail_twice", "retail_mixed", "retail">>
    /\ Match(1, 1).some /\ AcceptedAt(1) = {}
    /\ Match(2, 1).some /\ First(AcceptedAt(2)) = 3
    /\ extracted.method = "pattern"
    /\ extracted.value = SomeStr(<<"7","7","7","7">>)

(***************************************************************************)
(* Claims about the URLs the pattern stage reads (SpecPatternUrls).        *)
(***************************************************************************)
\* the URL at position k, as written, contains no skip fragment and contains
\* export2 or offer
SearchedAsWritten(k) ==
    LET url == TrafficLog(captured_responses[k]).url
    IN  /\ (Contains(url, s_export2) \/ Contains(url, s_offer))
        /\ \A e \in 1..Len(skip_endpoints) : ~Contains(url, skip_endpoints[e])

\* C21 as stated: the pattern stage inspects an entry if and only if its URL
\* contains no exclusion fragment and contains export2 or offer, so a value
\* is found by pattern exactly when such an entry holds an accepted match.
C21_InspectedIffUrlAsWritten ==
    PassReturned /\ ~Sufficient =>
        (extracted.method = "pattern" <=>
            \E k \in 1..Len(captured_responses) :
                SearchedAsWritten(k) /\ AcceptedAt(k) # {})

\* C21: the pattern stage inspects an entry if and only if its URL, compared
\* without case, contains no exclusion fragment and, as written, contains
\* export2 or offer; the entries it does not inspect supply no value, and an
\* export2 body with "export_value": 23456 yields "23456".
C21_InspectedIffUrlPassesFilter ==
    PassReturned /\ ~Sufficient =>
        LET accepting == Accepting
        IN  /\ extracted.method = "pattern" <=> accepting # {}
            /\ accepting # {} =>
                  LET k == First(accepting)
                  IN  extracted.value =
                          SomeStr(val_int(Match(k, First(AcceptedAt(k))).v).v)
            /\ accepting # {} /\ captured_responses[First(accepting)] = "retail"
                  => extracted.value = SomeStr(<<"2","3","4","5","6">>)

\* two entries with accepted matches are passed over, among them the one whose
\* URL has "Dashboard" capitalized, and the export2 one yields 23456
C21_Witness ==
    /\ captured_responses = <<"export2_Dashboard", "OFFER_upper", "retail">>
    /\ AcceptedAt(1) # {} /\ SearchedAsWritten(1) /\ ~Searched(1)
    /\ AcceptedAt(2) # {} /\ ~Searched(2)
    /\ extracted.method = "pattern"
    /\ extracted.value = SomeStr(<<"2","3","4","5","6">>)

(***************************************************************************)
(* Claims about the attempts of appraise_vehicle (SpecAppraise).           *)
(***************************************************************************)
\* C22: an attempt whose extraction found nothing (status NO DATA) does not
\* finish the VIN: appraise_vehicle never returns with status NO DATA, it
\* navigates again.
C22_NoDataIsRetried ==
    av_pc = "returned" => result.status # "NO DATA"

\* the first attempt ran both passes, found nothing, and the call has returned
C22_Witness ==
    /\ av_pc = "returned"
    /\ attempt = 1
    /\ extractions = 2
    /\ ~StrTruthy(export_value)
    /\ result.status = "NO DATA"
    /\ result.error = "Could not extract export value"

(***************************************************************************)
(* Claims about the persistence of results.                                *)
(***************************************************************************)
\* the results the run has finalized: one result event each
Finalized == {k \in 1..Len(events) : events[k].type = "result"}

\* C23: every result the run finalizes is handed to
\* save_to_appraisal_results, which makes exactly one datastore write for it:
\* there are as many calls and as many POST requests as result events.
C23_EveryResultWrittenOnce ==
    /\ Len(save_rets) = Cardinality(Finalized)
    /\ Len(posted) = Cardinality(Finalized)

\* two results were finalized and the run has ended
C23_Witness ==
    /\ Cardinality(Finalized) = 2
    /\ run_pc = "done"
    /\ posted = <<>>
    /\ save_rets = <<>>

C25_FailureIsFalseNoRaiseNoRetry ==
    /\ Len(posted) = Len(save_rets)
    /\ \A k \in 1..Len(save_rets) :
          /\ save_rets[k] \in BOOLEAN
          /\ save_rets[k] = (posted[k].outcome \in {"200", "201"})

\* a write that raised is followed by one that succeeds
C25_Witness ==
    /\ save_rets = <<FALSE, TRUE>>
    /\ posted[1].outcome = "raises"
    /\ posted[2].outcome = "201"

(***************************************************************************)
(* Claims about the result of appraise_vehicle (SpecPassThrough).          *)
(***************************************************************************)
PassedThrough ==
    {"vin", "odometer", "trim", "listing_url", "carfax_link", "make", "model", "year"}

\* C26: in every result appraise_vehicle returns, the fields vin, odometer,
\* trim, list_price, listing_url, carfax_link, make, model and year equal the
\* arguments of the call; make and model are not those of the decode response.
C26_ArgumentsPassThrough ==
    av_pc = "returned" =>
        /\ \A f \in PassedThrough : result[f] = args[f]
        /\ result.list_price = list_price

\* returned in a later attempt, after an error, with a decode response that
\* names another make and model than the inventory row
C26_Witness ==
    /\ av_pc = "returned"
    /\ attempt >= 2
    /\ result.error = "PageError"
    /\ vehicle_make = JStr("Honda") /\ vehicle_model = JStr("Civic")
    /\ result.make = JStr("Acura") /\ result.model = JStr("MDX")
    /\ result.signal_trim = JStr("EX")
    /\ result.status = "PROFIT"

BufferKept ==
    /\ Len(captured_responses') >= Len(captured_responses)
    /\ SubSeq(captured_responses', 1, Len(captured_responses)) = captured_responses

\* C28: within one attempt extract_export_value is called once if the first
\* pass returns a value and twice otherwise, never a third time; between the
\* first pass and the end of the second there is no navigation and no clear
\* of the buffer.
C28_OnePassOrTwo ==
    [][ /\ extractions' <= 2
        /\ av_pc = "extract1" /\ av_pc' \notin {"extract1", "except"}
              => /\ extractions' = 1
                 /\ av_pc' = IF StrTruthy(export_value') THEN "derive" ELSE "rescroll"
        /\ av_pc = "extract2" /\ av_pc' \notin {"extract2", "except"}
              => extractions' = 2 /\ av_pc' = "derive"
        /\ av_pc' = "extract2" /\ av_pc # "extract2"
              => av_pc = "rescroll" /\ extractions = 1 /\ ~StrTruthy(export_value)
        /\ av_pc \in {"rescroll", "extract2"} /\ av_pc' # "except"
              => attempt' = attempt /\ page_url' = page_url /\ BufferKept ]_vars

\* the first pass found nothing, responses arrived during the scroll that
\* follows, and the second pass of the same attempt found a value
C28_Witness ==
    /\ av_pc = "derive"
    /\ attempt = 1
    /\ extractions = 2
    /\ StrTruthy(export_value)
    /\ extracted.method = "calculator"
    /\ aria_labels = <<>>

(***************************************************************************)
(* Claims about the wholesale value (SpecTrends).                          *)
(***************************************************************************)
\* the response has a predicted_wholesale_value that is not null
HasPredicted(name) ==
    LET b == TrafficLog(name).body
    IN  Has(b.predicted_wholesale_value) /\ b.predicted_wholesale_value.t # "null"

\* the response has a first entry of wholesale_history.values with an amount
HasHistory(name) ==
    LET b == TrafficLog(name).body
    IN  Has(b.wholesale_history) /\ Has(b.history_values) /\ Has(b.history_amount)

\* the value a wholesale_value_trends response offers: the prediction, nested
\* amount or scalar, and the first history amount when there is no prediction
OfferedWholesale(name) ==
    LET b == TrafficLog(name).body
    IN  IF HasPredicted(name)
        THEN (IF b.predicted_wholesale_value.t = "obj"
              THEN PyFloat(b.pwv_amount).val
              ELSE PyFloat(b.predicted_wholesale_value).val)
        ELSE PyFloat(b.history_amount).val

\* C29: after a wholesale_value_trends response, us_wholesale_value is that
\* response's predicted_wholesale_value when it has one and, whenever it has
\* none, the amount of the first entry of its wholesale_history.values: the
\* pass ends with the value the last such response offers.
C29_PredictedElseHistory ==
    PassReturned =>
        LET offering == {k \in 1..Len(captured_responses) :
                            HasPredicted(captured_responses[k])
                                \/ HasHistory(captured_responses[k])}
        IN  offering # {} =>
                extracted.signals.us_wholesale_value =
                    OfferedWholesale(captured_responses[Last(offering)])

\* a response without prediction alone: the history amount is taken
C29_Witness ==
    /\ PassReturned
    /\ captured_responses = <<"trends_history_only">>
    /\ extracted.signals.us_wholesale_value = Rat(2006, 1)

(***************************************************************************)
(* Claims about the depreciation term (SpecDepreciation).                  *)
(***************************************************************************)
\* C30: when average_days_in_inventory or weekly_depreciation_factor is zero
\* or negative, the depreciation term is exactly 0: the computed export value
\* is the value of the formula without depreciation, so a negative factor or
\* negative days never raise it above that value.
C30_NonPositiveDepreciatesNothing ==
    LET sig == extracted.signals
    IN  (extracted.method = "calculator"
            /\ (sig.weekly_depreciation_factor.n <= 0
                    \/ sig.average_days_in_inventory.n <= 0))
        => extracted.value =
               SomeStr(IntToStr(NearestTiesEven(ExportFormula(sig, Zero, Zero))))

\* a value computed from negative days and a positive factor equals the value
\* without depreciation
C30_Witness ==
    LET sig == extracted.signals
    IN  /\ extracted.method = "calculator"
        /\ sig.average_days_in_inventory.n < 0
        /\ sig.weekly_depreciation_factor.n > 0
        /\ sig.us_wholesale_value = Rat(20000, 1)
        /\ extracted.value =
               SomeStr(IntToStr(NearestTiesEven(ExportFormula(sig, Zero, Zero))))

(***************************************************************************)
(* Claims about the customs duty rate (SpecDuty).                          *)
(***************************************************************************)
\* the positions of decode responses whose customs_duty_rate float() accepts
CastableDuty ==
    {k \in 1..Len(captured_responses) :
        /\ IsDecode(captured_responses[k])
        /\ PyFloat(TrafficLog(captured_responses[k]).body.customs_duty_rate).ok}

\* the positions of decode responses whose customs_duty_rate is null or a
\* value float() rejects
UncastableDuty ==
    {k \in 1..Len(captured_responses) :
        /\ IsDecode(captured_responses[k])
        /\ Has(TrafficLog(captured_responses[k]).body.customs_duty_rate)
        /\ ~PyFloat(TrafficLog(captured_responses[k]).body.customs_duty_rate).ok}

\* C31: a decode response whose customs_duty_rate is null or cannot be cast
\* leaves customs_duty_rate as it was (the rate of the last decode response
\* with a castable value before it, 0 when there is none), and the pass goes
\* on: it does not raise, and the responses after it are read.
C31_UncastableDutyKeepsPrevious ==
    LET sig == extracted.signals
        buf == captured_responses
    IN  extracted.method # "pending" =>
          /\ ~extracted.raised
          /\ sig.customs_duty_rate =
                IF CastableDuty = {} THEN Zero
                ELSE PyFloat(TrafficLog(buf[Last(CastableDuty)]).body.customs_duty_rate).val
          /\ \A k \in UncastableDuty : \A j \in (k + 1)..Len(buf) :
                /\ buf[j] = "trends" => sig.us_wholesale_value = Rat(20000, 1)
                /\ buf[j] = "offer_plain" => sig.exchange_rate = Rat(5, 4)

\* duty 3 %, then a decode response with "N/A", then the wholesale value:
\* the rate is still 3 % and the wholesale value was read
C31_Witness ==
    /\ PassReturned
    /\ captured_responses = <<"decode", "decode_duty_text", "trends">>
    /\ extracted.signals.customs_duty_rate = Rat(3, 100)
    /\ extracted.signals.vehicle_make = JStr("Ford")
    /\ extracted.signals.us_wholesale_value = Rat(20000, 1)

(***************************************************************************)
(* Claims about the bodies the pass reads (SpecBodies).                    *)
(***************************************************************************)
\* C32: an extraction pass never raises because of the content of a captured
\* body; whatever the bodies are (empty, HTML, a function wrapper, broken
\* JSON, JSON of an unexpected shape), the call ends by returning a value or
\* nothing.
C32_BodyContentNeverRaises ==
    extracted.method \in {"pending", "calculator", "pattern", "aria", "none"}

\* three bodies that are no JSON object are passed over and the call returns
\* nothing
C32_Witness ==
    /\ captured_responses = <<"offer_html", "offer_badjson", "offer_list">>
    /\ extracted.method = "none"
    /\ ~extracted.value.some

(***************************************************************************)
(* Claims about the results appraise_vehicle returns (SpecAppraise).       *)
(***************************************************************************)
\* the statuses of a finalized result, as the code spells them
FinalStatuses == {"PROFIT", "LOSS", "SUCCESS", "NO PRICE", "NO DATA", "SESSION_EXPIRED"}

\* C33: appraise_vehicle returns only finalized results: the status of a
\* returned result is PROFIT, LOSS, SUCCESS, NO PRICE, NO DATA or
\* SESSION_EXPIRED, never PENDING or ERROR; the except block of a failed attempt
\* records ERROR in the result and leads to the next attempt, not to a return.
C33_ReturnsOnlyFinalized ==
    /\ [](av_pc = "returned" => result.status \in FinalStatuses)
    /\ [][av_pc = "except" /\ av_pc' # "except"
            => result'.status = "ERROR" /\ av_pc' = "top"]_vars

\* a call returns SUCCESS from its second attempt, the first having failed
C33_Witness ==
    /\ av_pc = "returned"
    /\ attempt = 2
    /\ exc # NoError
    /\ result.status = "SUCCESS"

\* C34: in every returned result, profit is set if and only if the status is
\* PROFIT or LOSS, and then equals the numeric export_value_cad minus
\* list_price; export_value_cad is None if and only if the status is NO DATA or
\* SESSION_EXPIRED.
C34_ProfitAndValueMatchStatus ==
    av_pc = "returned" =>
        /\ result.profit.some <=> result.status \in {"PROFIT", "LOSS"}
        /\ result.profit.some =>
              /\ result.export_value_cad.some
              /\ list_price.some
              /\ result.profit.v = StrToInt(result.export_value_cad.v) - list_price.v
        /\ ~result.export_value_cad.some
              <=> result.status \in {"NO DATA", "SESSION_EXPIRED"}

\* a result returned with LOSS: profit is the value minus the list price
C34_Witness ==
    /\ av_pc = "returned"
    /\ result.status = "LOSS"
    /\ result.profit.some
    /\ result.profit.v < 0
    /\ result.profit.v = StrToInt(result.export_value_cad.v) - list_price.v

\* C35: a result returned with an export value (status PROFIT, LOSS, SUCCESS
\* or NO PRICE) has error None, also when earlier attempts of the call raised.
C35_ValueResultsCarryNoError ==
    (av_pc = "returned" /\ result.status \in {"PROFIT", "LOSS", "SUCCESS", "NO PRICE"})
        => result.error = NoError

\* a value found in the first attempt: the result carries no error
C35_Witness ==
    /\ av_pc = "returned"
    /\ attempt = 1
    /\ result.status \in {"PROFIT", "LOSS", "SUCCESS", "NO PRICE"}
    /\ result.export_value_cad.some
    /\ result.error = NoError

(***************************************************************************)
(* Claims about signal_trim (SpecTrim).                                    *)
(***************************************************************************)
\* the response stems from the page load of the current attempt
IsOwn(name) == name \in TrimSamples

\* the trim the decode responses of the current attempt's page load give
OwnTrim ==
    ScanBuffer(InitSignals, Dicts(SelectSeq(captured_responses, IsOwn))).vehicle_trim

\* C36: the signal_trim of a returned result stems only from the responses of
\* the final attempt for this vehicle: it is the trim of that attempt's decode
\* responses, never one of another vehicle or an earlier attempt, and it is
\* the empty string when that attempt had no decode response with a non-empty
\* trim or ended SESSION_EXPIRED.
C36_TrimFromFinalAttemptOnly ==
    av_pc = "returned" =>
        result.signal_trim =
            IF result.status = "SESSION_EXPIRED" THEN JStr("") ELSE OwnTrim

\* the second attempt's page sent a decode response with trim EX and no
\* response of another page arrived: signal_trim is EX
C36_Witness ==
    /\ av_pc = "returned"
    /\ attempt = 2
    /\ ~foreign
    /\ captured_responses = <<"retail", "decode">>
    /\ result.signal_trim = JStr("EX")

(***************************************************************************)
(* Claims about re-authentication (SpecAppraise).                          *)
(***************************************************************************)
\* C37: re-authentication fails only when no credentials were ever stored on
\* the object: once auto_login has been invoked (it stores them and returns
\* only True), the re-login step leads back to the head of the loop, and
\* appraise_vehicle never returns SESSION_EXPIRED.
C37_SessionExpiredOnlyWithoutCredentials ==
    /\ []((av_pc = "returned" /\ result.status = "SESSION_EXPIRED") => ~login_email)
    /\ [][(av_pc = "relogin" /\ login_email /\ av_pc' # "relogin")
             => (av_pc' = "top" /\ result'.status # "SESSION_EXPIRED")]_vars

\* with stored credentials the first attempt met the login page, the re-login
\* led to a second attempt, and that one returned a value
C37_Witness ==
    /\ av_pc = "returned"
    /\ login_email
    /\ attempt = 2
    /\ exc = NoError
    /\ result.status \in {"PROFIT", "LOSS", "SUCCESS", "NO PRICE"}

(***************************************************************************)
(* Claims about the login of a run (SpecRequests) and its event stream     *)
(* (Spec).                                                                 *)
(***************************************************************************)
\* auto_login has returned True in the login loop of the run
LoginSucceeded == HasEvent(Log("login successful"))

\* the run has come to the rows
AtRows == run_pc \in {"row", "restart", "item", "appraising"}

\* C38: in a processing run the appraisal of the first VIN begins only after a
\* login attempt has returned success; when the login loop ends without
\* success the run processes no VIN: it comes to no row, yields no progress
\* and no result event and enters no appraisal.
C38_NoAppraisalWithoutLogin ==
    /\ (AtRows \/ av_pc # "idle") => (LoginSucceeded /\ login_email)
    /\ \A k \in 1..Len(events) :
          events[k].type \in {"progress", "result", "complete"}
              => \E j \in 1..(k - 1) : events[j] = Log("login successful")
    /\ (run_pc \in {"finally", "done"} /\ ~LoginSucceeded)
          => (av_pc = "idle" /\ attempt = 0)

\* the case of C38 that the code handles: the run comes to its first row
\* after auto_login has returned True on its own object, no other request
\* being served
C38_Witness ==
    /\ run_pc = "item"
    /\ i = 0
    /\ LoginSucceeded
    /\ login_email
    /\ other_pc = "none"

\* the positions of row_events that hold an event of the type
RowEventsOf(type) == {k \in 1..Len(row_events) : row_events[k].type = type}

\* the event is a progress or a result event
IsRowEvent(e) == e.type \in {"progress", "result"}

\* a < b for two fractions with positive denominators
RLess(a, b) == a.n * b.d < b.n * a.d

\* the rows whose appraisal has returned: the rows done that had both keys
AppraisedRows == {r \in 1..i : valid_rows[r].vin /\ valid_rows[r].odometer}

\* C39: the event stream of a run is ordered: the progress event of a row
\* precedes its result event; the result events are in the order of the rows,
\* exactly one for each row whose appraisal returned; the progress values are
\* strictly increasing and lie in (0, 1]; a complete event is the last event
\* of the stream, so there is at most one.
C39_EventStreamOrdered ==
    /\ Len(SelectSeq(events, IsRowEvent)) = Len(row_events)
    /\ \A k \in 1..Len(row_events) :
          SelectSeq(events, IsRowEvent)[k].type = row_events[k].type
    /\ \A k \in RowEventsOf("result") :
          \E j \in RowEventsOf("progress") :
              j < k /\ row_events[j].row = row_events[k].row
    /\ \A k, l \in RowEventsOf("result") :
          k < l => row_events[k].row < row_events[l].row
    /\ run_pc # "appraising"
          => {row_events[k].row : k \in RowEventsOf("result")} = AppraisedRows
    /\ \A k \in RowEventsOf("progress") :
          /\ RLess(Zero, row_events[k].progress)
          /\ ~RLess(Rat(1, 1), row_events[k].progress)
    /\ \A k, l \in RowEventsOf("progress") :
          k < l => RLess(row_events[k].progress, row_events[l].progress)
    /\ \A k \in 1..Len(events) :
          events[k].type = "complete" => k = Len(events)

\* a run over four rows has ended with the complete event: three results, and
\* a row whose progress event has no result event
C39_Witness ==
    /\ run_pc = "done"
    /\ events[Len(events)] = Event("complete", "completed")
    /\ Cardinality(RowEventsOf("progress")) = 4
    /\ Cardinality(RowEventsOf("result")) = 3

(***************************************************************************)
(* SpecRelease: the two concurrent requests of SpecRequests, with the      *)
(* finally block of the followed run's generator taken once it is reached: *)
(* a return or an exception inside the try block of generate runs it.      *)
(***************************************************************************)
SpecRelease == Init /\ [][NextRequests]_vars /\ WF_vars(Finally)

\* the followed run has released the slot: the flag is cleared, the browser
\* session it started is not open and the global handle is None
Released ==
    /\ run_pc = "done"
    /\ ~is_processing
    /\ browser # "open"
    /\ automation = "none"

\* C40: every accepted run, when its event stream ends by whatever path,
\* eventually releases the processing slot: is_processing is False, its
\* browser session has been stopped and the shared automation handle is
\* cleared; and with the flag cleared a later POST /api/process is accepted.
C40_AcceptedRunReleasesSlot ==
    /\ (run_pc = "finally") ~> Released
    /\ [][(run_pc = "finally" /\ run_pc' = "done" /\ other_pc' = "none")
              => AfterCheck(is_processing') = "checked"]_vars

\* the case of C40 that the code handles: a run served alone has ended with
\* its complete event, the slot is released and no other request was made
C40_Witness ==
    /\ Released
    /\ browser = "closed"
    /\ other_pc = "none"
    /\ events # <<>>
    /\ events[Len(events)] = Event("complete", "completed")

====
